---- MODULE Spec2Model ----
(***************************************************************************)
(* The key-value store of bonsaidb-local (database/keyvalue.rs): the       *)
(* KeyValueState write-back cache over the `kv` tree, its expiration       *)
(* index, the persistence policy and the background worker.                *)
(*                                                                         *)
(* Option<T> is a sequence: <<>> is None and <<x>> is Some(x).             *)
(* A BTreeMap is a function whose DOMAIN is the set of its keys.           *)
(* Every operation runs with the state lock held, so an operation is one   *)
(* action; SpecLock and SpecCommit split it at the await of the commit,    *)
(* and in SpecCommit the transaction of a commit may fail.                 *)
(* SpecLoad and SpecRace add the ExpirationLoader that fills the index     *)
(* from the tree when the database is opened.                              *)
(***************************************************************************)
EXTENDS Integers, Sequences, FiniteSets, TLC

\* ---------------------------------------------------------------- bounds
\* The clock and every expiration are instants 0..MaxTime.
MaxTime == 2
\* The commits and the changes of a run are counted up to MaxCount.
MaxCount == 3
\* Namespaces and keys are texts of at most MaxLen characters.
MaxLen == 2
\* The width of Integer / UnsignedInteger (i64 / u64 in the source, scaled).
Bits == 3

\* The composite keys (full_key(namespace, key)) the clients use.
Keys == {"k1", "k2", "k3"}

VARIABLES
    tree,                      \* the `kv` tree: composite key -> stored bytes
    dirty_keys,                \* KeyValueState.dirty_keys
    expiring_keys,             \* KeyValueState.expiring_keys
    expiration_order,          \* KeyValueState.expiration_order
    last_commit,               \* KeyValueState.last_commit
    persistence,               \* KeyValueState.persistence
    background_worker_target,  \* the value of the watch channel
    target_changed,            \* the receiver has not yet seen the last send
    now,                       \* Timestamp::now()
    alive,                     \* the Context has not been dropped
    shutdown_keys,             \* history: the dirty buffer shutdown found
    result,                    \* the Output of the operation just finished
    logical,                   \* reference: key -> value of its last mutation
    recorded,                  \* reference: key -> expiration last recorded
    w_pc,                      \* background_worker: position in the loop
    w_target,                  \* background_worker: current_timestamp
    num_in,                    \* input of increment / decrement
    num_out,                   \* their result
    commits,                   \* history: transactions committed to the tree
    changes,                   \* history: changes made to the keys
    name_in,                   \* input of full_key / split_key
    name_out,                  \* their result
    lock,                      \* who holds the state lock
    inflight,                  \* commit_dirty_keys: the keys in the blocking task
    pending,                   \* the Output of the operation awaiting its commit
    transaction_data,          \* the data of the last transaction committed
    scan_keys,                 \* ExpirationLoader: the keys the scan has yet to read
    loader_queue,              \* ExpirationLoader: the channel of the scan
    expiration_loaded          \* mark_key_value_expiration_loaded was called

kvvars == <<tree, dirty_keys, expiring_keys, expiration_order, last_commit,
            persistence, background_worker_target, target_changed>>
wvars == <<w_pc, w_target>>
numvars == <<num_in, num_out>>
countvars == <<commits, changes>>
namevars == <<name_in, name_out>>
iovars == <<lock, inflight, pending, transaction_data>>
loadvars == <<scan_keys, loader_queue, expiration_loaded>>
vars == <<tree, dirty_keys, expiring_keys, expiration_order, last_commit,
          persistence, background_worker_target, target_changed, now, alive,
          shutdown_keys, result, logical, recorded, w_pc, w_target,
          num_in, num_out, commits, changes, name_in, name_out,
          lock, inflight, pending, transaction_data,
          scan_keys, loader_queue, expiration_loaded>>

\* ---------------------------------------------------------------- Option
None == <<>>
Some(x) == <<x>>
is_some(o) == o # <<>>
is_none(o) == o = <<>>
unwrap(o) == o[1]

Min(a, b) == IF a <= b THEN a ELSE b
Max(a, b) == IF a >= b THEN a ELSE b

\* ------------------------------------------------------------- Timestamp
Timestamps == 0..MaxTime
\* Timestamp::max, the target when nothing is pending.
TimestampMax == MaxTime + 1
\* Duration::MAX, the "never" of the persistence policy.
DurationMax == MaxTime + 1
\* Timestamp + Duration, saturating at Timestamp::max.
timestamp_add(t, d) == Min(t + d, TimestampMax)
\* Timestamp - Timestamp: None when the right side is the later one.
timestamp_sub(t1, t2) == IF t2 > t1 THEN None ELSE Some(t1 - t2)
\* Option<Duration>::unwrap_or_default()
unwrap_or_default(o) == IF is_some(o) THEN unwrap(o) ELSE 0

\* ----------------------------------------------------------------- Value
Pow2(n) == 2 ^ n
IntMin == -Pow2(Bits - 1)
IntMax == Pow2(Bits - 1) - 1
UIntMax == Pow2(Bits) - 1

Integer(n) == [n |-> n, kind |-> "Integer"]
UnsignedInteger(n) == [n |-> n, kind |-> "UnsignedInteger"]
Bytes(n) == [n |-> n, kind |-> "Bytes"]
Numerics == {Integer(n) : n \in IntMin..IntMax}
                \cup {UnsignedInteger(n) : n \in 0..UIntMax}

\* i64::saturating_add / saturating_sub and u64::saturating_add / _sub:
\* the exact result clamped to the range of the type.
saturating_i64(x) == Max(IntMin, Min(IntMax, x))
saturating_u64(x) == Max(0, Min(UIntMax, x))
\* i64::wrapping_add / wrapping_sub and u64::wrapping_add / _sub:
\* the exact result reduced modulo 2^Bits into the range of the type.
wrapping_i64(x) == ((x - IntMin) % Pow2(Bits)) + IntMin
wrapping_u64(x) == x % Pow2(Bits)

\* Numeric::as_i64_lossy: an Integer is itself; an UnsignedInteger is
\* clamped when saturating and reinterpreted (two's complement) otherwise.
as_i64_lossy(existing, saturating) ==
    IF existing.kind = "Integer" THEN existing.n
    ELSE IF saturating THEN saturating_i64(existing.n)
    ELSE wrapping_i64(existing.n)

\* Numeric::as_u64_lossy: the same towards u64.
as_u64_lossy(existing, saturating) ==
    IF existing.kind = "UnsignedInteger" THEN existing.n
    ELSE IF saturating THEN saturating_u64(existing.n)
    ELSE wrapping_u64(existing.n)

\* An increment that wraps whether or not it is asked to saturate.
increment_wrapping(existing, amount, saturating) ==
    IF amount.kind = "Integer"
    THEN Integer(wrapping_i64(as_i64_lossy(existing, saturating) + amount.n))
    ELSE UnsignedInteger(
             wrapping_u64(as_u64_lossy(existing, saturating) + amount.n))
increment(existing, amount, saturating) ==
    IF amount.kind = "Integer"
    THEN LET existing_value == as_i64_lossy(existing, saturating)
         IN  Integer(IF saturating
                     THEN saturating_i64(existing_value + amount.n)
                     ELSE wrapping_i64(existing_value + amount.n))
    ELSE LET existing_value == as_u64_lossy(existing, saturating)
         IN  UnsignedInteger(IF saturating
                             THEN saturating_u64(existing_value + amount.n)
                             ELSE wrapping_u64(existing_value + amount.n))

decrement(existing, amount, saturating) ==
    IF amount.kind = "Integer"
    THEN LET existing_value == as_i64_lossy(existing, saturating)
         IN  Integer(IF saturating
                     THEN saturating_i64(existing_value - amount.n)
                     ELSE wrapping_i64(existing_value - amount.n))
    ELSE LET existing_value == as_u64_lossy(existing, saturating)
         IN  UnsignedInteger(IF saturating
                             THEN saturating_u64(existing_value - amount.n)
                             ELSE wrapping_u64(existing_value - amount.n))


\* ------------------------------------------------------------- BTreeMap
map_insert(m, k, v) == [x \in DOMAIN m \cup {k} |-> IF x = k THEN v ELSE m[x]]
map_remove(m, k) == [x \in DOMAIN m \ {k} |-> m[x]]
EmptyMap == [x \in {} |-> 0]

\* -------------------------------------------------------------- VecDeque
\* Indices are 1-based here and 0-based in the source.
\* iter().enumerate().find_map(..): the first index that holds `key`; 0 when
\* there is none (the source unwraps, which cannot fail while expiring_keys
\* and expiration_order hold the same keys).
index_of(order, key) ==
    IF \E i \in 1..Len(order) : order[i] = key
    THEN CHOOSE i \in 1..Len(order) :
             order[i] = key /\ \A j \in 1..(i - 1) : order[j] # key
    ELSE 0
remove_at(order, i) ==
    IF i \in 1..Len(order)
    THEN SubSeq(order, 1, i - 1) \o SubSeq(order, i + 1, Len(order))
    ELSE order
insert_before(order, i, key) ==
    SubSeq(order, 1, i - 1) \o <<key>> \o SubSeq(order, i, Len(order))

\* ----------------------------------------------------------------- Entry
Entry(value, expiration) == [value |-> value, expiration |-> expiration]
\* bincode::serialize(&entry): the bytes of an entry in the tree.
serialize(entry) == <<"bincode", entry>>
\* Bytes in the tree that are not the encoding of an Entry.
RawBytes == <<"raw">>
\* bincode::deserialize::<Entry>(..).ok()
deserialize(bytes) == IF bytes[1] = "bincode" THEN Some(bytes[2]) ELSE None
\* roots.tree(KEY_TREE).get(key): Option<bytes>
tree_get(tr, key) == IF key \in DOMAIN tr THEN Some(tr[key]) ELSE None

\* ------------------------------------------------- KeyValuePersistence
PersistenceThreshold(number_of_changes, duration) ==
    [number_of_changes |-> number_of_changes, duration |-> duration]
\* KeyValuePersistence::default(): every change is committed at once.
DefaultPersistence == {PersistenceThreshold(1, 0)}
\* A threshold counts once the buffer holds enough changes; it is met when
\* its duration has also elapsed.  0 when a threshold is met, else the
\* shortest remaining time, else Duration::MAX.
RECURSIVE min_of(_)
min_of(S) ==
    IF S = {} THEN DurationMax
    ELSE LET x == CHOOSE y \in S : TRUE IN Min(x, min_of(S \ {x}))
duration_until_next_commit(policy, number_of_changes, elapsed) ==
    min_of({Max(th.duration - elapsed, 0) :
               th \in {t \in policy :
                          /\ number_of_changes > 0
                          /\ t.number_of_changes <= number_of_changes}})
should_commit(policy, number_of_changes, elapsed) ==
    duration_until_next_commit(policy, number_of_changes, elapsed) = 0

\* The fields of KeyValueState, and the tree behind `roots`, as one value.
State == [tree |-> tree,
          dirty_keys |-> dirty_keys,
          expiring_keys |-> expiring_keys,
          expiration_order |-> expiration_order,
          last_commit |-> last_commit,
          background_worker_target |-> background_worker_target,
          target_changed |-> target_changed]

\* ------------------------------------------------------- KeyValueState
\* A get that asks the tree before the dirty buffer.
get_tree_first(s, key) ==
    LET current == tree_get(s.tree, key)
    IN  IF is_some(current) THEN deserialize(unwrap(current))
        ELSE IF key \in DOMAIN s.dirty_keys THEN s.dirty_keys[key]
        ELSE None
\* A get that reads the tree when the dirty buffer holds a tombstone.
get_through_tombstone(s, key) ==
    IF key \in DOMAIN s.dirty_keys /\ is_some(s.dirty_keys[key])
    THEN s.dirty_keys[key]
    ELSE LET current == tree_get(s.tree, key)
         IN  IF is_some(current) THEN deserialize(unwrap(current)) ELSE None
get(s, key) ==
    IF key \in DOMAIN s.dirty_keys
    THEN s.dirty_keys[key]
    ELSE LET current == tree_get(s.tree, key)
         IN  IF is_some(current) THEN deserialize(unwrap(current)) ELSE None

set(s, key, value) ==
    [s EXCEPT !.dirty_keys = map_insert(s.dirty_keys, key, Some(value))]

\* `t` is the value Timestamp::now() returns during the call.
\* An update_background_worker_target that never sends.
update_background_worker_target_silent(s, t) == s
\* An update_background_worker_target that only looks at the expirations.
update_background_worker_target_expiration_only(s, t) ==
    LET closest_target ==
            IF Len(s.expiration_order) = 0 THEN TimestampMax
            ELSE s.expiring_keys[s.expiration_order[1]]
    IN  IF s.background_worker_target # Some(closest_target)
        THEN [s EXCEPT !.background_worker_target = Some(closest_target),
                       !.target_changed = TRUE]
        ELSE s
update_background_worker_target(s, t) ==
    LET key_expiration_target ==
            IF Len(s.expiration_order) = 0 THEN TimestampMax
            ELSE s.expiring_keys[s.expiration_order[1]]
        duration_until_commit ==
            duration_until_next_commit(
                persistence, Cardinality(DOMAIN s.dirty_keys),
                unwrap_or_default(timestamp_sub(t, s.last_commit)))
        commit_target == timestamp_add(t, duration_until_commit)
        closest_target == Min(key_expiration_target, commit_target)
    IN  IF s.background_worker_target # Some(closest_target)
        THEN [s EXCEPT !.background_worker_target = Some(closest_target),
                       !.target_changed = TRUE]
        ELSE s

\* An update_expiration that always pushes the key to the back of the queue.
update_expiration_push_back(s, tree_key, expiration, t) ==
    IF is_some(expiration)
    THEN LET existing_entry_index ==
                 IF tree_key \in DOMAIN s.expiring_keys
                 THEN index_of(s.expiration_order, tree_key) ELSE 0
             order1 == remove_at(s.expiration_order, existing_entry_index)
         IN  update_background_worker_target(
                 [s EXCEPT !.expiration_order = Append(order1, tree_key),
                           !.expiring_keys =
                               map_insert(s.expiring_keys, tree_key,
                                          unwrap(expiration))], t)
    ELSE IF tree_key \in DOMAIN s.expiring_keys
    THEN update_background_worker_target(
             [s EXCEPT !.expiring_keys = map_remove(s.expiring_keys, tree_key),
                       !.expiration_order =
                           remove_at(s.expiration_order,
                                     index_of(s.expiration_order, tree_key))], t)
    ELSE s
\* An update_expiration that leaves a key that already expires as it is.
update_expiration_first_wins(s, tree_key, expiration, t) ==
    IF is_some(expiration)
    THEN IF tree_key \in DOMAIN s.expiring_keys
         THEN s
         ELSE LET exp == unwrap(expiration)
                  later == {i \in 1..Len(s.expiration_order) :
                               s.expiring_keys[s.expiration_order[i]] > exp}
                  insert_at == IF later = {} THEN 0
                               ELSE CHOOSE i \in later : \A j \in later : i <= j
              IN  update_background_worker_target(
                      [s EXCEPT !.expiration_order =
                                    IF insert_at # 0
                                    THEN insert_before(@, insert_at, tree_key)
                                    ELSE Append(@, tree_key),
                                !.expiring_keys = map_insert(@, tree_key, exp)],
                      t)
    ELSE IF tree_key \in DOMAIN s.expiring_keys
    THEN update_background_worker_target(
             [s EXCEPT !.expiring_keys = map_remove(s.expiring_keys, tree_key),
                       !.expiration_order =
                           remove_at(s.expiration_order,
                                     index_of(s.expiration_order, tree_key))], t)
    ELSE s
\* An update_expiration that does nothing when the expiration is None.
update_expiration_ignore_none(s, tree_key, expiration, t) ==
    IF is_some(expiration)
    THEN update_expiration_push_back(s, tree_key, expiration, t)
    ELSE s
\* An update_expiration that recomputes the target only when the entry it
\* took out was the first of the queue.
update_expiration_removed_first_only(s, tree_key, expiration, t) ==
    IF is_some(expiration)
    THEN LET exp == unwrap(expiration)
             existing_entry_index ==
                 IF tree_key \in DOMAIN s.expiring_keys
                 THEN index_of(s.expiration_order, tree_key) ELSE 0
             order1 == remove_at(s.expiration_order, existing_entry_index)
             later == {i \in 1..Len(order1) : s.expiring_keys[order1[i]] > exp}
             insert_at == IF later = {} THEN 0
                          ELSE CHOOSE i \in later : \A j \in later : i <= j
             order2 == IF insert_at # 0
                       THEN insert_before(order1, insert_at, tree_key)
                       ELSE Append(order1, tree_key)
             s1 == [s EXCEPT !.expiration_order = order2,
                             !.expiring_keys =
                                 map_insert(s.expiring_keys, tree_key, exp)]
         IN  IF existing_entry_index = 1
             THEN update_background_worker_target(s1, t) ELSE s1
    ELSE IF tree_key \in DOMAIN s.expiring_keys
    THEN LET index == index_of(s.expiration_order, tree_key)
             s1 == [s EXCEPT !.expiring_keys = map_remove(s.expiring_keys, tree_key),
                             !.expiration_order = remove_at(s.expiration_order, index)]
         IN  IF index = 1 THEN update_background_worker_target(s1, t) ELSE s1
    ELSE s
update_expiration(s, tree_key, expiration, t) ==
    IF is_some(expiration)
    THEN LET exp == unwrap(expiration)
             existing_entry_index ==
                 IF tree_key \in DOMAIN s.expiring_keys
                 THEN index_of(s.expiration_order, tree_key) ELSE 0
             order1 == remove_at(s.expiration_order, existing_entry_index)
             later == {i \in 1..Len(order1) : s.expiring_keys[order1[i]] > exp}
             insert_at == IF later = {} THEN 0
                          ELSE CHOOSE i \in later : \A j \in later : i <= j
             order2 == IF insert_at # 0
                       THEN insert_before(order1, insert_at, tree_key)
                       ELSE Append(order1, tree_key)
             changed_first_expiration ==
                 \/ existing_entry_index = 1
                 \/ insert_at = 1
                 \/ (insert_at = 0 /\ Len(order1) = 0)
             s1 == [s EXCEPT !.expiration_order = order2,
                             !.expiring_keys =
                                 map_insert(s.expiring_keys, tree_key, exp)]
         IN  IF changed_first_expiration
             THEN update_background_worker_target(s1, t) ELSE s1
    ELSE IF tree_key \in DOMAIN s.expiring_keys
    THEN LET index == index_of(s.expiration_order, tree_key)
             s1 == [s EXCEPT !.expiring_keys = map_remove(s.expiring_keys, tree_key),
                             !.expiration_order = remove_at(s.expiration_order, index)]
         IN  IF index = 1 THEN update_background_worker_target(s1, t) ELSE s1
    ELSE s

update_key_expiration(s, key, expiration, t) ==
    update_expiration(s, key, expiration, t)

\* A sweep that stops at a key whose expiration is the time of the sweep.
RECURSIVE remove_expired_keys_before(_, _)
remove_expired_keys_before(s, t) ==
    IF /\ Len(s.expiration_order) # 0
       /\ s.expiring_keys[s.expiration_order[1]] < t
    THEN LET key == Head(s.expiration_order)
         IN  remove_expired_keys_before(
                 [s EXCEPT !.expiration_order = Tail(s.expiration_order),
                           !.expiring_keys = map_remove(s.expiring_keys, key),
                           !.dirty_keys = map_insert(s.dirty_keys, key, None)],
                 t)
    ELSE s
\* A sweep that, while the front of the queue is due, takes the key at the
\* back.
RECURSIVE remove_expired_keys_back(_, _)
remove_expired_keys_back(s, t) ==
    IF /\ Len(s.expiration_order) # 0
       /\ s.expiring_keys[s.expiration_order[1]] <= t
    THEN LET key == s.expiration_order[Len(s.expiration_order)]
         IN  remove_expired_keys_back(
                 [s EXCEPT !.expiration_order =
                               SubSeq(@, 1, Len(s.expiration_order) - 1),
                           !.expiring_keys = map_remove(s.expiring_keys, key),
                           !.dirty_keys = map_insert(s.dirty_keys, key, None)],
                 t)
    ELSE s
RECURSIVE remove_expired_keys(_, _)
remove_expired_keys(s, t) ==
    IF /\ Len(s.expiration_order) # 0
       /\ s.expiring_keys[s.expiration_order[1]] <= t
    THEN LET key == Head(s.expiration_order)
         IN  remove_expired_keys(
                 [s EXCEPT !.expiration_order = Tail(s.expiration_order),
                           !.expiring_keys = map_remove(s.expiring_keys, key),
                           !.dirty_keys = map_insert(s.dirty_keys, key, None)],
                 t)
    ELSE s

\* A needs_commit that waits for a second change.
needs_commit_second_change(s, t) == Cardinality(DOMAIN s.dirty_keys) >= 2
\* A needs_commit that asks for a commit whatever the policy says.
needs_commit_always(s, t) == TRUE
\* A needs_commit that counts the mutating operations, not the dirty keys.
needs_commit_operations(s, t) ==
    should_commit(persistence,
                  IF DOMAIN s.dirty_keys = {} THEN 0 ELSE changes + 1,
                  unwrap_or_default(timestamp_sub(t, s.last_commit)))
needs_commit(s, t) ==
    should_commit(persistence, Cardinality(DOMAIN s.dirty_keys),
                  unwrap_or_default(timestamp_sub(t, s.last_commit)))

\* A CompareSwap closure that skips every tombstone.
compare_swap_skip_tombstone(new_value, existing_value) ==
    IF is_some(new_value) THEN <<"Set", serialize(unwrap(new_value))>>
    ELSE <<"Skip">>
\* The CompareSwap closure of persist_keys: what is done to one key.
compare_swap(new_value, existing_value) ==
    IF is_some(new_value) THEN <<"Set", serialize(unwrap(new_value))>>
    ELSE IF is_some(existing_value) THEN <<"Remove">>
    ELSE <<"Skip">>

\* The tree after the transaction that modifies every key of `keys`.
persist_keys(tr, keys) ==
    LET op(k) == compare_swap(keys[k], tree_get(tr, k))
        kept == {k \in DOMAIN tr \cup DOMAIN keys :
                    k \in DOMAIN keys => op(k)[1] # "Remove" /\
                                         (op(k)[1] = "Skip" => k \in DOMAIN tr)}
    IN  [k \in kept |->
            IF k \in DOMAIN keys /\ op(k)[1] = "Set" THEN op(k)[2] ELSE tr[k]]

\* persist_keys commits its transaction: some key was set or removed.
transaction_commits(tr, keys) ==
    \E k \in DOMAIN keys : compare_swap(keys[k], tree_get(tr, k))[1] # "Skip"

commit_dirty_keys(s, t) ==
    IF DOMAIN s.dirty_keys = {}
    THEN s
    ELSE [s EXCEPT !.tree = persist_keys(s.tree, s.dirty_keys),
                   !.dirty_keys = EmptyMap,
                   !.last_commit = t]

\* A shutdown that commits only when the policy asks for it.
shutdown_when_due(s, t) ==
    IF needs_commit(s, t) THEN commit_dirty_keys(s, t) ELSE s
shutdown(s, t) == commit_dirty_keys(s, t)

\* f is the closure, a function on the value it is called with.
\* [s |-> the state afterwards, current |-> the value returned]
fetch_and_update(s, full_key, f) ==
    LET current == get(s, full_key)
        next == f[current]
    IN  [s |-> [s EXCEPT !.dirty_keys = map_insert(s.dirty_keys, full_key, next)],
         current |-> current]

\* A remove that stages no tombstone for a key it finds only in the tree.
remove_without_tombstone(s, key, t) ==
    LET s1 == update_key_expiration(s, key, None, t)
    IN  IF key \in DOMAIN s1.dirty_keys
        THEN [s |-> [s1 EXCEPT !.dirty_keys[key] = None],
              previous |-> s1.dirty_keys[key]]
        ELSE LET previous_value == tree_get(s1.tree, key)
             IN  [s |-> s1,
                  previous |-> IF is_some(previous_value)
                               THEN deserialize(unwrap(previous_value))
                               ELSE None]
\* [s |-> the state afterwards, previous |-> the value returned]
remove(s, key, t) ==
    LET s1 == update_key_expiration(s, key, None, t)
    IN  IF key \in DOMAIN s1.dirty_keys
        THEN [s |-> [s1 EXCEPT !.dirty_keys[key] = None],
              previous |-> s1.dirty_keys[key]]
        ELSE LET previous_value == tree_get(s1.tree, key)
             IN  [s |-> [s1 EXCEPT !.dirty_keys = map_insert(s1.dirty_keys, key, None)],
                  previous |-> IF is_some(previous_value)
                               THEN deserialize(unwrap(previous_value))
                               ELSE None]

\* ---------------------------------------------------------------- Output
Status(status) == [value |-> None, status |-> status, tag |-> "Status"]
Value(value) == [value |-> value, status |-> "", tag |-> "Value"]
Err(message) == [value |-> None, status |-> message, tag |-> "Err"]
NoOutput == [value |-> None, status |-> "", tag |-> ""]
\* The message of the error (its back quotes are left out).
NotNumeric == "type of stored Value is not Numeric"
is_ok(out) == out.tag # "Err"
\* Option<Entry>::map(|entry| entry.value)
entry_value(entry) == IF is_some(entry) THEN Some(unwrap(entry).value) ELSE None

SetCommand(value, expiration, keep_existing_expiration, check, return_previous_value) ==
    [value |-> value, expiration |-> expiration,
     keep_existing_expiration |-> keep_existing_expiration,
     check |-> check, return_previous_value |-> return_previous_value]

\* A check that takes OnlyIfPresent for OnlyIfVacant and the reverse.
should_update_swapped(cmd, existing_value) ==
    CASE cmd.check = "OnlyIfPresent" -> is_none(existing_value)
      [] cmd.check = "OnlyIfVacant" -> is_some(existing_value)
      [] OTHER -> TRUE
\* The closure execute_set_operation hands to fetch_and_update.
should_update(cmd, existing_value) ==
    CASE cmd.check = "OnlyIfPresent" -> is_some(existing_value)
      [] cmd.check = "OnlyIfVacant" -> is_none(existing_value)
      [] OTHER -> TRUE
\* An entry that always takes the expiration of the command.
set_entry_command_expiration(cmd, existing_value) ==
    Entry(cmd.value, cmd.expiration)
set_entry(cmd, existing_value) ==
    Entry(cmd.value,
          IF /\ should_update(cmd, existing_value)
             /\ cmd.keep_existing_expiration
             /\ is_some(existing_value)
          THEN unwrap(existing_value).expiration
          ELSE cmd.expiration)

\* The operations return [s |-> the state afterwards, out |-> the Result].
execute_set_operation(s, full_key, cmd, t) ==
    LET existing == get(s, full_key)
        updated == should_update(cmd, existing)
        inserted == updated /\ is_none(existing)
        entry == set_entry(cmd, existing)
        f == [existing_value \in {existing} |->
                 IF should_update(cmd, existing_value)
                 THEN Some(set_entry(cmd, existing_value))
                 ELSE existing_value]
        r == fetch_and_update(s, full_key, f)
        previous_value == r.current
    IN  IF updated
        THEN [s |-> update_key_expiration(r.s, full_key, entry.expiration, t),
              out |-> IF cmd.return_previous_value
                      THEN Value(entry_value(previous_value))
                      ELSE IF inserted THEN Status("Inserted")
                      ELSE Status("Updated")]
        ELSE [s |-> r.s, out |-> Status("NotChanged")]

execute_get_operation(s, full_key, delete, t) ==
    IF delete
    THEN LET r == remove(s, full_key, t)
         IN  [s |-> r.s, out |-> Value(entry_value(r.previous))]
    ELSE [s |-> s, out |-> Value(entry_value(get(s, full_key)))]

execute_delete_operation(s, full_key, t) ==
    LET r == remove(s, full_key, t)
    IN  [s |-> r.s,
         out |-> IF is_some(r.previous) THEN Status("Deleted")
                 ELSE Status("NotChanged")]

\* op names the function handed over: increment or decrement.
apply_numeric(op, existing, amount, saturating) ==
    IF op = "increment" THEN increment(existing, amount, saturating)
    ELSE decrement(existing, amount, saturating)
\* A numeric operation that returns the new value without storing it.
execute_numeric_operation_unstored(s, full_key, amount, saturating, op) ==
    LET current == get(s, full_key)
        entry == IF is_some(current) THEN unwrap(current)
                 ELSE Entry(UnsignedInteger(0), None)
    IN  IF entry.value.kind # "Bytes"
        THEN [s |-> s,
              out |-> Value(Some(apply_numeric(op, entry.value, amount,
                                               saturating)))]
        ELSE [s |-> s, out |-> Err(NotNumeric)]
\* A numeric operation that stores the new value without the expiration
\* of the entry.
execute_numeric_operation_no_expiration(s, full_key, amount, saturating, op) ==
    LET current == get(s, full_key)
        entry == IF is_some(current) THEN unwrap(current)
                 ELSE Entry(UnsignedInteger(0), None)
    IN  IF entry.value.kind # "Bytes"
        THEN LET value == apply_numeric(op, entry.value, amount, saturating)
             IN  [s |-> set(s, full_key, Entry(value, None)),
                  out |-> Value(Some(value))]
        ELSE [s |-> s, out |-> Err(NotNumeric)]
execute_numeric_operation(s, full_key, amount, saturating, op) ==
    LET current == get(s, full_key)
        entry == IF is_some(current) THEN unwrap(current)
                 ELSE Entry(UnsignedInteger(0), None)
    IN  IF entry.value.kind # "Bytes"
        THEN LET value == apply_numeric(op, entry.value, amount, saturating)
             IN  [s |-> set(s, full_key, [entry EXCEPT !.value = value]),
                  out |-> Value(Some(value))]
        ELSE [s |-> s, out |-> Err(NotNumeric)]

execute_increment_operation(s, full_key, amount, saturating) ==
    execute_numeric_operation(s, full_key, amount, saturating, "increment")
execute_decrement_operation(s, full_key, amount, saturating) ==
    execute_numeric_operation(s, full_key, amount, saturating, "decrement")

\* What perform_kv_operation and the background worker both do once the
\* command is done: sweep, commit when the policy says so, publish the target.
\* ({e(x) : x \in {v}} names the value v before e uses it: s1 is the state
\* after the sweep, s2 the state after the commit.)
\* A sweep_commit_retarget that flushes the dirty buffer before it sweeps.
sweep_commit_retarget_commit_first(s, t) ==
    CHOOSE s3 \in
        {update_background_worker_target(s2, t) :
            s2 \in {remove_expired_keys(s1, t) :
                      s1 \in {IF needs_commit(s0, t)
                              THEN commit_dirty_keys(s0, t) ELSE s0 :
                                 s0 \in {s}}}} : TRUE
sweep_commit_retarget(s, t) ==
    CHOOSE s3 \in
        {update_background_worker_target(s2, t) :
            s2 \in {IF needs_commit(s1, t) THEN commit_dirty_keys(s1, t) ELSE s1 :
                      s1 \in {remove_expired_keys(s0, t) : s0 \in {s}}}} : TRUE

\* op: [command, key, ...]; the result is [s, out].
execute_command(s, op, t) ==
    CASE op.command = "Set" ->
             execute_set_operation(s, op.key, op.set, t)
      [] op.command = "Get" ->
             execute_get_operation(s, op.key, op.delete, t)
      [] op.command = "Delete" ->
             execute_delete_operation(s, op.key, t)
      [] op.command = "Increment" ->
             execute_increment_operation(s, op.key, op.amount, op.saturating)
      [] op.command = "Decrement" ->
             execute_decrement_operation(s, op.key, op.amount, op.saturating)

\* The sweep, commit and retarget run after a failed command too.
after_command_always(r, t) ==
    [s |-> sweep_commit_retarget(r.s, t), out |-> r.out]
\* r: what the command returned.
after_command(r, t) ==
    IF is_ok(r.out)
    THEN [s |-> sweep_commit_retarget(r.s, t), out |-> r.out]
    ELSE r

perform_kv_operation(s, op, t) == after_command(execute_command(s, op, t), t)

\* -------------------------------------------------------- KeyOperation
\* Every operation record has the same fields; a command reads its own.
NoSet == SetCommand(Bytes(0), None, FALSE, "None", FALSE)
KeyOperation(command, key, cmd, delete, amount, saturating) ==
    [saturating |-> saturating, amount |-> amount, key |-> key, set |-> cmd,
     delete |-> delete, command |-> command]
SetOp(key, cmd) == KeyOperation("Set", key, cmd, FALSE, Integer(0), FALSE)
GetOp(key, delete) == KeyOperation("Get", key, NoSet, delete, Integer(0), FALSE)
DeleteOp(key) == KeyOperation("Delete", key, NoSet, FALSE, Integer(0), FALSE)
IncrementOp(key, amount, saturating) ==
    KeyOperation("Increment", key, NoSet, FALSE, amount, saturating)
DecrementOp(key, amount, saturating) ==
    KeyOperation("Decrement", key, NoSet, FALSE, amount, saturating)

\* ------------------------------------------------------------ reference
\* The value the last mutation of each key wrote: what a store without a
\* dirty buffer, commits or a tree would hold.  A key the expiration sweep
\* removes counts as deleted.
reference_value(ref, op) ==
    LET cur == ref[op.key]
    IN  CASE op.command = "Set" ->
                 IF should_update(op.set, cur) THEN Some(op.set.value) ELSE cur
          [] op.command = "Get" -> IF op.delete THEN None ELSE cur
          [] op.command = "Delete" -> None
          [] op.command = "Increment" ->
                 IF is_none(cur)
                 THEN Some(increment(UnsignedInteger(0), op.amount, op.saturating))
                 ELSE IF unwrap(cur).kind = "Bytes" THEN cur
                 ELSE Some(increment(unwrap(cur), op.amount, op.saturating))
          [] op.command = "Decrement" ->
                 IF is_none(cur)
                 THEN Some(decrement(UnsignedInteger(0), op.amount, op.saturating))
                 ELSE IF unwrap(cur).kind = "Bytes" THEN cur
                 ELSE Some(decrement(unwrap(cur), op.amount, op.saturating))
reference_after(ref, op, swept) ==
    [k \in Keys |-> IF k \in swept THEN None
                    ELSE IF k = op.key THEN reference_value(ref, op)
                    ELSE ref[k]]

\* The expiration the clients last recorded for each key, by Set or by
\* update_key_expiration (none after a delete), whatever the sweeps have done
\* since; `replaced` is the earlier expiration it took the place of when
\* that one was not yet reached.
Recorded(expiration, replaced) ==
    [expiration |-> expiration, replaced |-> replaced]
record(cur, expiration, t) ==
    Recorded(expiration,
             IF /\ is_some(cur.expiration)
                /\ is_some(expiration)
                /\ t < unwrap(cur.expiration)
                /\ unwrap(cur.expiration) < unwrap(expiration)
             THEN cur.expiration ELSE None)
\* existing: the entry of the key before the operation.
recorded_value(cur, op, existing, t) ==
    CASE op.command = "Set" ->
             IF should_update(op.set, existing)
             THEN record(cur, set_entry(op.set, existing).expiration, t)
             ELSE cur
      [] op.command = "Get" -> IF op.delete THEN record(cur, None, t) ELSE cur
      [] op.command = "Delete" -> record(cur, None, t)
      [] OTHER -> cur

\* --------------------------------------------------------------- actions
Install(s) ==
    /\ tree' = s.tree
    /\ dirty_keys' = s.dirty_keys
    /\ expiring_keys' = s.expiring_keys
    /\ expiration_order' = s.expiration_order
    /\ last_commit' = s.last_commit
    /\ background_worker_target' = s.background_worker_target
    /\ target_changed' = s.target_changed
    /\ persistence' = persistence

\* Context::perform_kv_operation: the operation under the state lock.
\* (\E x \in {e} names the value e.)
Operation(op) ==
    /\ alive
    /\ \E mid \in {execute_command(State, op, now)} :
       \E r \in {after_command(mid, now)} :
          /\ Install(r.s)
          /\ result' = r.out
          /\ logical' = reference_after(
                 logical, op,
                 IF is_ok(r.out)
                 THEN DOMAIN mid.s.expiring_keys \ DOMAIN r.s.expiring_keys
                 ELSE {})
    /\ recorded' = [recorded EXCEPT ![op.key] =
                        recorded_value(@, op, get(State, op.key), now)]
    /\ UNCHANGED <<now, alive, shutdown_keys, wvars, numvars, namevars, iovars, loadvars>>

ClientOperation(op) == Operation(op) /\ UNCHANGED countvars

\* The transactions the sweep and commit at time t commit from state s.
commits_of(s, t) ==
    LET s1 == remove_expired_keys(s, t)
    IN  IF /\ needs_commit(s1, t)
           /\ DOMAIN s1.dirty_keys # {}
           /\ transaction_commits(s1.tree, s1.dirty_keys)
        THEN 1 ELSE 0
\* The keys the sweep at time t removes from state s.
swept_keys(s, t) ==
    DOMAIN s.expiring_keys \ DOMAIN remove_expired_keys(s, t).expiring_keys
\* The changes an operation with this result has made to its key.
changes_of(out) ==
    IF out \in {Status("Inserted"), Status("Updated"), Status("Deleted")}
    THEN 1 ELSE 0

\* The operation, with its commit and its changes counted: a change is a
\* Set that inserted or updated, a Delete that deleted, or the removal of
\* an expired key.
CountedOperation(op) ==
    /\ commits < MaxCount
    /\ changes < MaxCount
    /\ Operation(op)
    /\ \E mid \in {execute_command(State, op, now)} :
          IF is_ok(mid.out)
          THEN /\ commits' = commits + commits_of(mid.s, now)
               /\ changes' = changes + changes_of(mid.out)
                                 + Cardinality(swept_keys(mid.s, now))
          ELSE UNCHANGED countvars

Set(key, cmd) == ClientOperation(SetOp(key, cmd))
Get(key, delete) == ClientOperation(GetOp(key, delete))
Delete(key) == ClientOperation(DeleteOp(key))
Increment(key, amount, saturating) ==
    ClientOperation(IncrementOp(key, amount, saturating))
Decrement(key, amount, saturating) ==
    ClientOperation(DecrementOp(key, amount, saturating))

\* Context::update_key_expiration_async: update_key_expiration under the lock.
UpdateKeyExpiration(key, expiration) ==
    /\ alive
    /\ \E s \in {update_key_expiration(State, key, expiration, now)} : Install(s)
    /\ recorded' = [recorded EXCEPT ![key] = record(@, expiration, now)]
    /\ result' = NoOutput
    /\ UNCHANGED <<now, alive, shutdown_keys, logical, wvars, numvars, namevars, iovars, loadvars,
                   countvars>>

\* update_key_expiration(key, None) on a key whose expiration is pending;
\* `replaced` remembers the expiration that was cleared.
ClearKeyExpiration(key) ==
    /\ alive
    /\ key \in DOMAIN expiring_keys
    /\ now < expiring_keys[key]
    /\ \E s \in {update_key_expiration(State, key, None, now)} : Install(s)
    /\ recorded' = [recorded EXCEPT ![key] =
                        Recorded(None, Some(expiring_keys[key]))]
    /\ result' = NoOutput
    /\ UNCHANGED <<now, alive, shutdown_keys, logical, wvars, numvars, namevars, iovars, loadvars,
                   countvars>>

\* Dropping the Context: shutdown under the lock; no operation follows.
Shutdown ==
    /\ alive
    /\ alive' = FALSE
    /\ shutdown_keys' = dirty_keys
    /\ \E s \in {shutdown(State, now)} : Install(s)
    /\ result' = NoOutput
    /\ UNCHANGED <<now, logical, recorded, wvars, numvars, namevars, iovars, loadvars, countvars>>

\* The clock advances.
Tick ==
    /\ now < MaxTime
    /\ now' = now + 1
    /\ result' = NoOutput
    /\ UNCHANGED <<kvvars, alive, shutdown_keys, logical, recorded, wvars,
                   numvars, namevars, iovars, loadvars, countvars>>

\* background_worker, from the top of the loop to its next await: read the
\* target; a target already past means perform_operations, any other
\* target (or none) means waiting for a change or for the timer.
\* [w_pc, w_target] for the channel value `target` read at time t.
\* (A loop that performs whenever it reads a target, reached or not.)
worker_loop_top_eager(target, t) ==
    IF is_some(target)
    THEN [w_pc |-> "perform", w_target |-> None]
    ELSE [w_pc |-> "wait", w_target |-> target]
worker_loop_top(target, t) ==
    IF is_some(target) /\ is_none(timestamp_sub(unwrap(target), t))
    THEN [w_pc |-> "perform", w_target |-> None]
    ELSE [w_pc |-> "wait", w_target |-> target]

\* timestamp_receiver.changed() completes: back to the top of the loop.
WorkerChanged ==
    /\ w_pc = "wait"
    /\ target_changed
    /\ target_changed' = FALSE
    /\ \E w \in {worker_loop_top(background_worker_target, now)} :
          w_pc' = w.w_pc /\ w_target' = w.w_target
    /\ UNCHANGED <<tree, dirty_keys, expiring_keys, expiration_order,
                   last_commit, persistence, background_worker_target,
                   now, alive, shutdown_keys, logical, recorded, numvars, namevars, iovars, loadvars,
                   countvars>>
    /\ result' = NoOutput

\* tokio::time::sleep(remaining) completes.
WorkerTimer ==
    /\ w_pc = "wait"
    /\ is_some(w_target)
    /\ now >= unwrap(w_target)
    /\ w_pc' = "perform"
    /\ w_target' = None
    /\ result' = NoOutput
    /\ UNCHANGED <<kvvars, now, alive, shutdown_keys, logical, recorded,
                   numvars, namevars, iovars, loadvars, countvars>>

\* perform_operations: sweep, commit and publish under the state lock, then
\* the top of the loop again.
Perform ==
    /\ w_pc = "perform"
    /\ \E s \in {sweep_commit_retarget(State, now)} :
          /\ Install(s)
          /\ logical' = [k \in Keys |->
                            IF k \in DOMAIN expiring_keys \ DOMAIN s.expiring_keys
                            THEN None ELSE logical[k]]
          /\ \E w \in {worker_loop_top(s.background_worker_target, now)} :
                w_pc' = w.w_pc /\ w_target' = w.w_target
    /\ result' = NoOutput
    /\ UNCHANGED <<now, alive, shutdown_keys, recorded, numvars, namevars, iovars, loadvars>>

WorkerPerform == Perform /\ UNCHANGED countvars

\* perform_operations, with its commit and the keys it removes counted.
CountedWorkerPerform ==
    /\ commits < MaxCount
    /\ changes < MaxCount
    /\ Perform
    /\ commits' = commits + commits_of(State, now)
    /\ changes' = changes + Cardinality(swept_keys(State, now))

Worker == WorkerChanged \/ WorkerTimer \/ WorkerPerform

\* ------------------------------------------------------- specification
\* An input of increment / decrement, and whether it has been applied.
NumInput(op, existing, amount, saturating, applied) ==
    [existing |-> existing, saturating |-> saturating, amount |-> amount,
     op |-> op, applied |-> applied]
NumIdle == NumInput("", Integer(0), Integer(0), FALSE, FALSE)
\* An input of full_key: a namespace and a key.
NameIdle == <<None, <<>>>>

\* KeyValueState::new over the tree `tr`; the worker has read the absent
\* target and waits for a change.
NewState(tr) ==
    /\ now = 0
    /\ tree = tr
    /\ dirty_keys = EmptyMap
    /\ expiring_keys = EmptyMap
    /\ expiration_order = <<>>
    /\ last_commit = now
    /\ background_worker_target = None
    /\ target_changed = FALSE
    /\ alive = TRUE
    /\ shutdown_keys = EmptyMap
    /\ result = NoOutput
    /\ logical = [k \in Keys |-> None]
    /\ recorded = [k \in Keys |-> Recorded(None, None)]
    /\ w_pc = "wait"
    /\ w_target = None
    /\ num_out = Integer(0)
    /\ commits = 0
    /\ changes = 0
    /\ name_out = None
    /\ lock = "free"
    /\ inflight = None
    /\ pending = None
    /\ transaction_data = None
\* ... and the ExpirationLoader has gone through the tree.
InitState(tr) ==
    /\ NewState(tr)
    /\ scan_keys = <<>>
    /\ loader_queue = <<>>
    /\ expiration_loaded = TRUE

Checks == {"None", "OnlyIfPresent", "OnlyIfVacant"}

\* The store under its clients: two keys, values without expiration, under
\* the default policy or the lazy policy of tests::basic_persistence
\* (`after 2 changes`, or `after 1 change and 2 time units`).
StoreKeys == {"k1", "k2"}
StorePolicies == {DefaultPersistence,
                  {PersistenceThreshold(2, 0), PersistenceThreshold(1, 2)}}
StoreAmounts == {UnsignedInteger(UIntMax)}
StoreExpirations == {None, Some(1)}

Init ==
    /\ InitState(EmptyMap)
    /\ num_in = NumIdle
    /\ name_in = NameIdle
    /\ persistence \in StorePolicies

Next ==
    \/ \E key \in StoreKeys, expiration \in StoreExpirations :
          Set(key, SetCommand(Bytes(0), expiration, FALSE, "None", FALSE))
    \/ \E key \in StoreKeys, delete \in BOOLEAN : Get(key, delete)
    \/ \E key \in StoreKeys : Delete(key)
    \/ \E key \in StoreKeys, amount \in StoreAmounts : Increment(key, amount, TRUE)
    \/ Shutdown
    \/ Tick
    \/ Worker

Spec == Init /\ [][Next]_vars

\* One key under every form of Set, Get, Delete, Increment and Decrement,
\* with and without an expiration, the clock and the worker.
TheKey == "k1"
KeyValues == {Bytes(0), Bytes(1)}

KeyNext ==
    \/ \E value \in KeyValues, expiration \in StoreExpirations,
          keep \in BOOLEAN, check \in Checks, previous \in BOOLEAN :
          Set(TheKey, SetCommand(value, expiration, keep, check, previous))
    \/ \E delete \in BOOLEAN : Get(TheKey, delete)
    \/ Delete(TheKey)
    \/ \E amount \in StoreAmounts : Increment(TheKey, amount, TRUE)
    \/ \E amount \in StoreAmounts : Decrement(TheKey, amount, TRUE)
    \/ Tick
    \/ Worker

SpecKey == Init /\ [][KeyNext]_vars

\* The expiration index under three keys, as in tests::out_of_order_expiration
\* and tests::multiple_keys_expiration: the tree starts with bytes the tests
\* put there directly; expirations are recorded, replaced and cleared, keys
\* are set and deleted, the clock advances and the worker sweeps, under the
\* default policy.
ExpTree == [k \in Keys |-> RawBytes]
ExpExpirations == {None, Some(1), Some(2)}
ExpSetKeys == {"k1"}

ExpInit ==
    /\ InitState(ExpTree)
    /\ num_in = NumIdle
    /\ name_in = NameIdle
    /\ persistence = DefaultPersistence

ExpNext ==
    \/ \E key \in Keys, expiration \in ExpExpirations :
          UpdateKeyExpiration(key, expiration)
    \/ \E key \in ExpSetKeys, expiration \in StoreExpirations :
          Set(key, SetCommand(Bytes(0), expiration, FALSE, "None", FALSE))
    \/ \E key \in ExpSetKeys : Delete(key)
    \/ \E key \in ExpSetKeys : Get(key, TRUE)
    \/ Tick
    \/ Worker

SpecExp == ExpInit /\ [][ExpNext]_vars

\* Clearing expirations, as in tests::clearing_expiration: expirations are
\* recorded for two keys and cleared again before they are reached, a
\* third key is set, the clock advances and the worker sweeps.
ClearKeys == {"k2", "k3"}
ClearExpirations == {Some(1), Some(2)}

ClearNext ==
    \/ \E key \in ClearKeys, expiration \in ClearExpirations :
          UpdateKeyExpiration(key, expiration)
    \/ \E key \in ClearKeys : ClearKeyExpiration(key)
    \/ \E key \in ExpSetKeys, expiration \in StoreExpirations :
          Set(key, SetCommand(Bytes(0), expiration, FALSE, "None", FALSE))
    \/ Tick
    \/ Worker

SpecClear == ExpInit /\ [][ClearNext]_vars

\* The lazy policy of tests::basic_persistence over three keys: values are
\* set and deleted, the clock advances and the worker commits.
LazyPersistence == {PersistenceThreshold(2, 0), PersistenceThreshold(1, 2)}
LazySet == SetCommand(Bytes(0), None, FALSE, "None", FALSE)

LazyInit ==
    /\ InitState(EmptyMap)
    /\ num_in = NumIdle
    /\ name_in = NameIdle
    /\ persistence = LazyPersistence

LazyNext ==
    \/ \E key \in Keys : Set(key, LazySet)
    \/ \E key \in Keys : Delete(key)
    \/ Tick
    \/ Worker

SpecLazy == LazyInit /\ [][LazyNext]_vars

\* increment and decrement on every stored value and amount.
NumInputs ==
    {NumInput(op, existing, amount, saturating, FALSE) :
        op \in {"increment", "decrement"},
        existing \in Numerics,
        amount \in Numerics,
        saturating \in BOOLEAN}

NumInit ==
    /\ InitState(EmptyMap)
    /\ persistence = DefaultPersistence
    /\ num_in \in NumInputs
    /\ name_in = NameIdle

\* The function is applied to the input.
NumApply ==
    /\ ~num_in.applied
    /\ num_in' = [num_in EXCEPT !.applied = TRUE]
    /\ num_out' = apply_numeric(num_in.op, num_in.existing, num_in.amount,
                                num_in.saturating)
    /\ UNCHANGED <<kvvars, now, alive, shutdown_keys, result, logical,
                   recorded, wvars, countvars, namevars, iovars, loadvars>>

NumNext == NumApply

SpecNumeric == NumInit /\ [][NumNext]_vars

\* Expiring keys under a fairly scheduled worker, as in
\* tests::basic_expiration: the clients record expirations and set a key
\* until the last instant of the clock and do nothing from then on; the
\* worker goes on.
FairKeys == {"k1", "k2"}
FairTree == [k \in FairKeys |-> RawBytes]
ClientsActive == now < MaxTime

FairInit ==
    /\ InitState(FairTree)
    /\ persistence = DefaultPersistence
    /\ num_in = NumIdle
    /\ name_in = NameIdle

FairNext ==
    \/ /\ ClientsActive
       /\ \E key \in FairKeys, expiration \in ExpExpirations :
             UpdateKeyExpiration(key, expiration)
    \/ /\ ClientsActive
       /\ \E key \in ExpSetKeys, expiration \in ExpExpirations :
             Set(key, SetCommand(Bytes(0), expiration, FALSE, "None", FALSE))
    \/ Tick
    \/ Worker

FairSpec == FairInit /\ [][FairNext]_vars /\ WF_vars(Worker)

\* The lazy policy under a fairly scheduled worker: the clients set and
\* delete keys until the last instant of the clock and do nothing from then
\* on; the worker goes on.
FairLazyNext ==
    \/ /\ ClientsActive
       /\ \E key \in Keys : Set(key, LazySet)
    \/ /\ ClientsActive
       /\ \E key \in Keys : Delete(key)
    \/ Tick
    \/ Worker

FairLazySpec == LazyInit /\ [][FairLazyNext]_vars /\ WF_vars(Worker)

\* Sequences of Set and Delete on two keys under either policy, with the
\* commits and the changes counted: every check of Set, values with and
\* without an expiration, the clock and the worker.
CountNext ==
    \/ \E key \in StoreKeys, expiration \in StoreExpirations, check \in Checks :
          CountedOperation(
              SetOp(key, SetCommand(Bytes(0), expiration, FALSE, check, FALSE)))
    \/ \E key \in StoreKeys : CountedOperation(DeleteOp(key))
    \/ Tick
    \/ WorkerChanged
    \/ WorkerTimer
    \/ CountedWorkerPerform

CountSpec == Init /\ [][CountNext]_vars

\* One key under Sets that keep the existing expiration and Sets that do
\* not: the former write Bytes(1) with no expiration or the last instant of
\* the clock, the latter Bytes(0) with no expiration or the instant 1.
KeepValue == Bytes(1)
PlainValue == Bytes(0)
KeepExpirations == {None, Some(MaxTime)}

KeepNext ==
    \/ \E expiration \in StoreExpirations :
          Set(TheKey, SetCommand(PlainValue, expiration, FALSE, "None", FALSE))
    \/ \E expiration \in KeepExpirations, check \in Checks :
          Set(TheKey, SetCommand(KeepValue, expiration, TRUE, check, FALSE))
    \/ Delete(TheKey)
    \/ Tick
    \/ Worker

SpecKeep == Init /\ [][KeepNext]_vars

\* One key that holds numbers: it is set to an Integer, an UnsignedInteger
\* or Bytes, with and without an expiration, incremented and decremented
\* (saturating) by the greatest amount of either kind, and deleted.
NumberValues == {Integer(-1), UnsignedInteger(UIntMax), Bytes(0)}
NumberAmounts == {Integer(IntMax), UnsignedInteger(UIntMax)}

NumberNext ==
    \/ \E value \in NumberValues, expiration \in StoreExpirations :
          Set(TheKey, SetCommand(value, expiration, FALSE, "None", FALSE))
    \/ \E amount \in NumberAmounts : Increment(TheKey, amount, TRUE)
    \/ \E amount \in NumberAmounts : Decrement(TheKey, amount, TRUE)
    \/ Delete(TheKey)
    \/ Tick
    \/ Worker

SpecNumber == Init /\ [][NumberNext]_vars

\* Namespaces and keys as texts (sequences of character codes). full_key
\* joins them around a NUL into the composite key, the text the tree, the
\* dirty keys and the expiration index are keyed by; nothing before it
\* looks at the characters of the namespace or of the key.
NUL == 0
full_key(namespace, key) ==
    (IF is_some(namespace) THEN unwrap(namespace) ELSE <<>>) \o <<NUL>> \o key
\* split_key: split_once at the first NUL; an empty namespace is None.
split_key_keep_empty(full) ==
    IF \E i \in DOMAIN full : full[i] = NUL
    THEN LET i == CHOOSE i \in DOMAIN full :
                      full[i] = NUL /\ \A j \in 1..(i - 1) : full[j] # NUL
         IN  Some(<<Some(SubSeq(full, 1, i - 1)),
                    SubSeq(full, i + 1, Len(full))>>)
    ELSE None
split_key(full) ==
    IF \E i \in DOMAIN full : full[i] = NUL
    THEN LET i == CHOOSE i \in DOMAIN full :
                      full[i] = NUL /\ \A j \in 1..(i - 1) : full[j] # NUL
             namespace == SubSeq(full, 1, i - 1)
             key == SubSeq(full, i + 1, Len(full))
         IN  Some(<<IF namespace = <<>> THEN None ELSE Some(namespace), key>>)
    ELSE None
\* The composite key each key of the model stands for.
composite_keys ==
    [k1 |-> <<NUL, 98>>, k2 |-> <<97, NUL, 98>>, k3 |-> <<97, NUL, NUL, 98>>]
tree_key(full) == CHOOSE k \in Keys : composite_keys[k] = full

\* The order of two composite keys as byte strings (the order of a
\* BTreeMap<String, _> and of the tree).
RECURSIVE bytes_less(_, _)
bytes_less(a, b) ==
    IF b = <<>> THEN FALSE
    ELSE IF a = <<>> THEN TRUE
    ELSE IF Head(a) # Head(b) THEN Head(a) < Head(b)
    ELSE bytes_less(Tail(a), Tail(b))
\* The keys of a set in that order.
RECURSIVE in_key_order(_)
in_key_order(keys) ==
    IF keys = {} THEN <<>>
    ELSE LET first == CHOOSE k \in keys :
                          \A other \in keys \ {k} :
                              bytes_less(composite_keys[k],
                                         composite_keys[other])
         IN  <<first>> \o in_key_order(keys \ {first})

ChangedKey(namespace, key, deleted) == <<namespace, key, deleted>>
\* What the CompareSwap closure of persist_keys pushes to changed_keys for
\* one key: <<>> or one ChangedKey.
\* (A closure that records every tombstone, as not deleted when the tree
\* had no value.)
changed_key_every_tombstone(k, new_value, existing_value) ==
    LET name == unwrap(split_key(composite_keys[k]))
    IN  IF is_some(new_value)
        THEN <<ChangedKey(name[1], name[2], FALSE)>>
        ELSE <<ChangedKey(name[1], name[2], is_some(existing_value))>>
changed_key(k, new_value, existing_value) ==
    LET name == unwrap(split_key(composite_keys[k]))
    IN  IF is_some(new_value)
        THEN <<ChangedKey(name[1], name[2], FALSE)>>
        ELSE IF is_some(existing_value)
        THEN <<ChangedKey(name[1], name[2], is_some(existing_value))>>
        ELSE <<>>
\* changed_keys once modify has gone through the keys of the snapshot.
RECURSIVE changed_keys_of(_, _, _)
changed_keys_of(order, tr, keys) ==
    IF order = <<>> THEN <<>>
    ELSE changed_key(Head(order), keys[Head(order)], tree_get(tr, Head(order)))
             \o changed_keys_of(Tail(order), tr, keys)
changed_keys(tr, keys) == changed_keys_of(in_key_order(DOMAIN keys), tr, keys)
\* The data persist_keys sets on the transaction entry before it commits:
\* Changes::Keys(changed_keys), or None when nothing changed and nothing
\* is committed.
changes_data(tr, keys) ==
    IF changed_keys(tr, keys) # <<>>
    THEN Some(<<"Keys", changed_keys(tr, keys)>>)
    ELSE None
\* The (namespace, key) pairs of the clients: no namespace and "b", "a" and
\* "b", "a" and NUL "b", "a" NUL and "b".
Pairs ==
    {<<None, <<98>>>>, <<Some(<<97>>), <<98>>>>,
     <<Some(<<97>>), <<NUL, 98>>>>, <<Some(<<97, NUL>>), <<98>>>>}
NamespaceValues == {Bytes(1)}
\* KeyValue::execute_key_operation for Database: the operation goes to
\* perform_kv_operation as it came, and the handlers address
\* full_key(namespace, key).
execute_key_operation(namespace, key, op) ==
    ClientOperation([op EXCEPT !.key = tree_key(full_key(namespace, key))])

NamespaceNext ==
    \/ \E p \in Pairs, value \in NamespaceValues :
          execute_key_operation(p[1], p[2],
              SetOp(TheKey, SetCommand(value, None, FALSE, "None", FALSE)))
    \/ \E p \in Pairs, delete \in BOOLEAN :
          execute_key_operation(p[1], p[2], GetOp(TheKey, delete))
    \/ \E p \in Pairs : execute_key_operation(p[1], p[2], DeleteOp(TheKey))
    \/ Tick
    \/ Worker

SpecNamespace == Init /\ [][NamespaceNext]_vars

\* full_key and split_key on every namespace (none, or a text) and key of
\* at most MaxLen characters out of NUL and "a".
Chars == {NUL, 97}
Texts == UNION {[1..n -> Chars] : n \in 0..MaxLen}

NameInit ==
    /\ InitState(EmptyMap)
    /\ persistence = DefaultPersistence
    /\ num_in = NumIdle
    /\ name_in \in ({None} \cup {Some(text) : text \in Texts}) \X Texts

\* The key goes through full_key, and the composite key through split_key.
NameJoin ==
    /\ name_out = None
    /\ \E full \in {full_key(name_in[1], name_in[2])} :
          name_out' = Some(<<full, split_key(full)>>)
    /\ UNCHANGED <<kvvars, now, alive, shutdown_keys, result, logical,
                   recorded, wvars, numvars, countvars, name_in, iovars, loadvars>>
\* The key is taken for a composite key and goes through split_key.
NameSplit ==
    /\ name_out = None
    /\ name_out' = Some(<<name_in[2], split_key(name_in[2])>>)
    /\ UNCHANGED <<kvvars, now, alive, shutdown_keys, result, logical,
                   recorded, wvars, numvars, countvars, name_in, iovars, loadvars>>

NameNext == NameJoin \/ NameSplit

SpecName == NameInit /\ [][NameNext]_vars

\* Teardown. The sender of the target channel is a field of KeyValueState,
\* and the state lives as long as somebody holds its Arc: the Context, until
\* it is dropped, and background_worker, until it returns. The channel is
\* closed once the sender is dropped.
sender_dropped == ~alive /\ w_pc \in {"done", "failed"}
\* timestamp_receiver.changed() completes: with Err when the channel is
\* closed, and the worker breaks out of its loop; otherwise with Ok.
WorkerChangedResult ==
    IF w_pc = "wait" /\ sender_dropped
    THEN /\ w_pc' = "done"
         /\ w_target' = None
         /\ result' = NoOutput
         /\ UNCHANGED <<kvvars, now, alive, shutdown_keys, logical, recorded,
                        numvars, namevars, iovars, loadvars, countvars>>
    ELSE WorkerChanged

\* One key is set, with and without expiration, the Context is dropped at
\* some time, the clock advances, and the worker is scheduled fairly.
TeardownWorker == WorkerChangedResult \/ WorkerTimer \/ WorkerPerform

TeardownNext ==
    \/ \E expiration \in StoreExpirations :
          Set(TheKey, SetCommand(Bytes(0), expiration, FALSE, "None", FALSE))
    \/ Delete(TheKey)
    \/ Shutdown
    \/ Tick
    \/ TeardownWorker

FairTeardownSpec ==
    Init /\ [][TeardownNext]_vars /\ WF_vars(TeardownWorker)

\* The published target under the default policy and under a lazy policy
\* (`after 2 changes`, or `after 1 change and 1 time unit`): two keys are
\* set and deleted, expirations are recorded and cleared, the clock advances
\* and the worker runs.
TargetPolicies == {DefaultPersistence,
                   {PersistenceThreshold(2, 0), PersistenceThreshold(1, 1)}}
TargetExpirations == {None, Some(MaxTime)}

TargetInit ==
    /\ InitState(EmptyMap)
    /\ num_in = NumIdle
    /\ name_in = NameIdle
    /\ persistence \in TargetPolicies

TargetNext ==
    \/ \E key \in StoreKeys, expiration \in StoreExpirations :
          Set(key, SetCommand(Bytes(0), expiration, FALSE, "None", FALSE))
    \/ Delete(TheKey)
    \/ \E expiration \in TargetExpirations :
          UpdateKeyExpiration(TheKey, expiration)
    \/ Tick
    \/ Worker

SpecTarget == TargetInit /\ [][TargetNext]_vars

\* ------------------------------------------- the commit as an await
\* commit_dirty_keys awaits the blocking task that runs persist_keys; the
\* actions below stop there, so that the clock, the worker's channel and
\* whoever else is allowed to can move while the task runs.
\*
\* commit_dirty_keys up to the await: the dirty buffer is moved out.
\* (A commit_dirty_keys that hands a copy to the task and keeps the buffer.)
commit_begin_copy(s) == s
commit_begin(s) == [s EXCEPT !.dirty_keys = EmptyMap]
\* ... and after it: the transaction of persist_keys has changed the tree,
\* or has failed and changed nothing; last_commit is set either way.
commit_end(s, keys, t, failed) ==
    [s EXCEPT !.tree = IF failed THEN s.tree ELSE persist_keys(s.tree, keys),
              !.last_commit = t]
\* The error a failed transaction returns.
TreeError == "tree"
\* The holder of the state lock while `owner` awaits the blocking task:
\* commit_dirty_keys borrows the state (&mut self) across the await, so
\* the guard is still alive.
lock_across_commit_released(owner) == "free"
lock_across_commit(owner) == owner
\* What follows the command, up to the await or, when no commit is started,
\* to the end: <<the state, the keys moved out (None: no commit started)>>.
sweep_commit_begin(s, t) ==
    LET s1 == remove_expired_keys(s, t)
    IN  IF needs_commit(s1, t) /\ DOMAIN s1.dirty_keys # {}
        THEN <<commit_begin(s1), Some(s1.dirty_keys)>>
        ELSE <<update_background_worker_target(s1, t), None>>

\* perform_kv_operation up to the await inside commit_dirty_keys; without
\* a commit, all of it.
IoOperation(op) ==
    /\ alive
    /\ lock = "free"
    /\ \E mid \in {execute_command(State, op, now)} :
          /\ logical' = reference_after(
                 logical, op,
                 IF is_ok(mid.out) THEN swept_keys(mid.s, now) ELSE {})
          /\ IF is_ok(mid.out)
             THEN \E b \in {sweep_commit_begin(mid.s, now)} :
                     /\ is_some(b[2]) => is_none(inflight)
                     /\ Install(b[1])
                     /\ inflight' = IF is_some(b[2]) THEN b[2] ELSE inflight
                     /\ transaction_data' = transaction_data
                     /\ IF is_some(b[2])
                        THEN /\ lock' = lock_across_commit("client")
                             /\ pending' = Some(mid.out)
                             /\ result' = NoOutput
                        ELSE /\ lock' = "free"
                             /\ pending' = pending
                             /\ result' = mid.out
             ELSE /\ Install(mid.s)
                  /\ result' = mid.out
                  /\ UNCHANGED iovars
    /\ recorded' = [recorded EXCEPT ![op.key] =
                        recorded_value(@, op, get(State, op.key), now)]
    /\ UNCHANGED <<now, alive, shutdown_keys, wvars, numvars, namevars,
                   countvars, loadvars>>

\* perform_operations of the worker up to the await; without a commit, to
\* the top of the loop.
IoPerform ==
    /\ w_pc = "perform"
    /\ lock = "free"
    /\ \E b \in {sweep_commit_begin(State, now)} :
          /\ is_some(b[2]) => is_none(inflight)
          /\ Install(b[1])
          /\ inflight' = IF is_some(b[2]) THEN b[2] ELSE inflight
          /\ logical' = [k \in Keys |->
                            IF k \in swept_keys(State, now) THEN None
                            ELSE logical[k]]
          /\ IF is_some(b[2])
             THEN /\ lock' = lock_across_commit("worker")
                  /\ w_pc' = "commit"
                  /\ w_target' = None
             ELSE /\ lock' = "free"
                  /\ \E w \in {worker_loop_top(b[1].background_worker_target, now)} :
                        w_pc' = w.w_pc /\ w_target' = w.w_target
    /\ result' = NoOutput
    /\ UNCHANGED <<now, alive, shutdown_keys, recorded, pending,
                   transaction_data, numvars, namevars, countvars, loadvars>>

\* The blocking task is done and commit_dirty_keys returns. A client gets
\* the error of a failed commit instead of its Output (`?`), and the target
\* is not published; the worker returns the error (`?`) and is gone.
IoCommitDone(failed) ==
    /\ is_some(inflight)
    /\ \E s1 \in {commit_end(State, unwrap(inflight), now, failed)} :
       \E s2 \in {IF failed THEN s1
                   ELSE update_background_worker_target(s1, now)} :
          /\ Install(s2)
          /\ IF is_some(pending)
             THEN /\ result' = IF failed THEN Err(TreeError) ELSE unwrap(pending)
                  /\ UNCHANGED wvars
             ELSE /\ result' = NoOutput
                  /\ IF failed
                     THEN w_pc' = "failed" /\ w_target' = None
                     ELSE \E w \in {worker_loop_top(s2.background_worker_target,
                                                     now)} :
                             w_pc' = w.w_pc /\ w_target' = w.w_target
    /\ transaction_data' =
           IF ~failed /\ is_some(changes_data(tree, unwrap(inflight)))
           THEN changes_data(tree, unwrap(inflight))
           ELSE transaction_data
    /\ inflight' = None
    /\ pending' = None
    /\ lock' = "free"
    /\ UNCHANGED <<now, alive, shutdown_keys, logical, recorded, numvars,
                   namevars, countvars, loadvars>>

\* Dropping the Context: shutdown once the lock is free.
IoShutdown == lock = "free" /\ Shutdown

\* Two keys under Set, Get and Delete, with and without expiration, the
\* worker and the clock; the transactions do not fail.
IoOperations ==
    {SetOp(key, SetCommand(Bytes(1), expiration, FALSE, "None", FALSE)) :
        key \in StoreKeys, expiration \in StoreExpirations}
        \cup {GetOp(key, FALSE) : key \in StoreKeys}
        \cup {DeleteOp(key) : key \in StoreKeys}

LockNext ==
    \/ \E op \in IoOperations : IoOperation(op)
    \/ IoCommitDone(FALSE)
    \/ IoPerform
    \/ WorkerChanged
    \/ WorkerTimer
    \/ Tick

SpecLock == Init /\ [][LockNext]_vars

\* One key under the same operations; the transaction of a commit may fail.
CommitOperations == {op \in IoOperations : op.key = TheKey}

CommitNext ==
    \/ \E op \in CommitOperations : IoOperation(op)
    \/ \E failed \in BOOLEAN : IoCommitDone(failed)
    \/ IoPerform
    \/ WorkerChanged
    \/ WorkerTimer
    \/ Tick

SpecCommit == Init /\ [][CommitNext]_vars

\* ================================================================ claims

C3_ShutdownFlushes ==
    [][(alive /\ ~alive') =>
          /\ DOMAIN dirty_keys' = {}
          /\ \A k \in DOMAIN dirty_keys :
                tree_get(tree', k) =
                    IF is_some(dirty_keys[k])
                    THEN Some(serialize(unwrap(dirty_keys[k])))
                    ELSE None]_vars

\* Shutdown found one pending write at a time when the lazy policy asked
\* for no commit (one change, no time elapsed), and the tree holds it.
C3_Witness ==
    /\ ~alive
    /\ persistence # DefaultPersistence
    /\ now = 0
    /\ \E k \in Keys :
          /\ DOMAIN shutdown_keys = {k}
          /\ is_some(shutdown_keys[k])
          /\ tree_get(tree, k) = Some(serialize(unwrap(shutdown_keys[k])))

\* The Set commands of SpecKey, and whether the check of one vetoes now.
SetCommands ==
    {SetCommand(value, expiration, keep, check, previous) :
        value \in KeyValues, expiration \in StoreExpirations,
        keep \in BOOLEAN, check \in Checks, previous \in BOOLEAN}
Vetoed(key, cmd) ==
    \/ cmd.check = "OnlyIfPresent" /\ is_none(get(State, key))
    \/ cmd.check = "OnlyIfVacant" /\ is_some(get(State, key))
\* What the Set would return now, and the state it would leave.
SetOutcome(key, cmd) == perform_kv_operation(State, SetOp(key, cmd), now)

\* C4: a Set whose check vetoes the write returns Status(NotChanged) and
\* leaves the dirty buffer, expiring_keys and expiration_order as they were.
C4_VetoedSetChangesNothing ==
    \A cmd \in SetCommands :
        Vetoed(TheKey, cmd) =>
            /\ SetOutcome(TheKey, cmd).out = Status("NotChanged")
            /\ SetOutcome(TheKey, cmd).s.dirty_keys = dirty_keys
            /\ SetOutcome(TheKey, cmd).s.expiring_keys = expiring_keys
            /\ SetOutcome(TheKey, cmd).s.expiration_order = expiration_order

\* The status the claim gives a Set without return_previous_value.
SetStatus(key, cmd) ==
    IF Vetoed(key, cmd) THEN Status("NotChanged")
    ELSE IF is_some(get(State, key)) THEN Status("Updated")
    ELSE Status("Inserted")
\* An entry with this expiration does not survive the sweep at time t.
Expired(expiration, t) == is_some(expiration) /\ unwrap(expiration) <= t

OnBytes(key) ==
    is_some(get(State, key)) /\ unwrap(get(State, key)).value.kind = "Bytes"
C6_NumericOnBytesFails ==
    \A amount \in Numerics, saturating \in BOOLEAN :
        OnBytes(TheKey) =>
            \A op \in {IncrementOp(TheKey, amount, saturating),
                       DecrementOp(TheKey, amount, saturating)} :
                /\ perform_kv_operation(State, op, now).out = Err(NotNumeric)
                /\ perform_kv_operation(State, op, now).s = State

\* The operation has failed in a state where a successful one would have
\* swept the key (its expiration is due) and committed the dirty buffer.
C6_Witness ==
    /\ result = Err(NotNumeric)
    /\ OnBytes(TheKey)
    /\ TheKey \in DOMAIN expiring_keys
    /\ expiring_keys[TheKey] <= now
    /\ needs_commit(State, now)

\* A key is present: its pending change is an entry, or it has none and the
\* tree holds the key.
present(s, key) ==
    IF key \in DOMAIN s.dirty_keys THEN is_some(s.dirty_keys[key])
    ELSE key \in DOMAIN s.tree
\* The background worker has nothing to do: no change of the target to see,
\* no timer that has run out, no sweep under way.
WorkerIdle ==
    /\ w_pc = "wait"
    /\ ~target_changed
    /\ ~(is_some(w_target) /\ now >= unwrap(w_target))

\* C2: the keys of expiring_keys are the elements of expiration_order, no key
\* is in expiration_order twice, and the timestamps along expiration_order
\* never decrease.
C2_ExpirationIndex ==
    LET keys == {expiration_order[i] : i \in 1..Len(expiration_order)}
    IN  /\ DOMAIN expiring_keys = keys
        /\ Cardinality(keys) = Len(expiration_order)
        /\ \A i \in 1..(Len(expiration_order) - 1) :
               expiring_keys[expiration_order[i]]
                   <= expiring_keys[expiration_order[i + 1]]

\* Three keys expire, the last of the key names first, the first and the
\* last of the queue at different times.
C2_Witness ==
    /\ Len(expiration_order) = 3
    /\ expiration_order[1] = "k3"
    /\ expiring_keys[expiration_order[1]] < expiring_keys[expiration_order[3]]

\* C9: while the clock is before the expiration last recorded for a key,
\* the index holds the key with that expiration, and no step other than a
\* client's delete or new expiration for the key makes a present key
\* absent: a replaced, earlier expiration removes nothing.
C9_NotRemovedBeforeExpiration ==
    [][\A k \in Keys :
          LET e == recorded'[k].expiration
          IN  (is_some(e) /\ now' < unwrap(e)) =>
                  /\ k \in DOMAIN expiring_keys'
                  /\ expiring_keys'[k] = unwrap(e)
                  /\ (recorded'[k] = recorded[k] /\ present(State, k))
                         => present(State, k)']_vars

\* The earlier expiration of a key was replaced by a later one; the clock
\* has reached the earlier one, a sweep has removed another key, and the
\* key is still there.
C9_Witness ==
    \E k \in Keys, other \in Keys :
        /\ is_some(recorded[k].replaced)
        /\ unwrap(recorded[k].replaced) <= now
        /\ now < unwrap(recorded[k].expiration)
        /\ present(State, k)
        /\ other # k
        /\ is_some(recorded[other].expiration)
        /\ unwrap(recorded[other].expiration) <= now
        /\ ~present(State, other)
        /\ other \notin DOMAIN expiring_keys

\* C10: keys expire in the order of their timestamps.  A sweep that removes
\* a key also removes every key with an earlier expiration; and once the
\* worker has nothing left to do, a key whose expiration has been reached
\* is absent while a key whose expiration is still ahead is in the index
\* and stays present if it is.
C10_ExpireInTimestampOrder ==
    /\ [](WorkerIdle =>
             \A k \in Keys :
                 LET e == recorded[k].expiration
                 IN  /\ (is_some(e) /\ unwrap(e) <= now) =>
                            (~present(State, k) /\ k \notin DOMAIN expiring_keys)
                     /\ (is_some(e) /\ now < unwrap(e)) =>
                            k \in DOMAIN expiring_keys)
    /\ [][/\ \A k1 \in DOMAIN expiring_keys, k2 \in DOMAIN expiring_keys :
               (/\ expiring_keys[k1] < expiring_keys[k2]
                /\ k2 \notin DOMAIN expiring_keys'
                /\ recorded'[k2] = recorded[k2]
                /\ recorded'[k1] = recorded[k1])
                   => (k1 \notin DOMAIN expiring_keys' /\ ~present(State, k1)')
          /\ \A k \in DOMAIN expiring_keys :
               (/\ now' < expiring_keys[k]
                /\ recorded'[k] = recorded[k]
                /\ present(State, k))
                   => present(State, k)']_vars

\* Between the expirations of two keys, after the worker has run: the key
\* whose expiration was recorded second and is the earlier one is gone, the
\* other is still there.
C10_Witness ==
    /\ WorkerIdle
    /\ is_some(recorded["k3"].expiration)
    /\ is_some(recorded["k2"].expiration)
    /\ unwrap(recorded["k3"].expiration) <= now
    /\ now < unwrap(recorded["k2"].expiration)
    /\ ~present(State, "k3")
    /\ present(State, "k2")
    /\ "k2" \in DOMAIN expiring_keys

\* The range of a kind, and the exact sum or difference of an input.
KindMin(kind) == IF kind = "Integer" THEN IntMin ELSE 0
KindMax(kind) == IF kind = "Integer" THEN IntMax ELSE UIntMax
Exact(input) ==
    IF input.op = "increment" THEN input.existing.n + input.amount.n
    ELSE input.existing.n - input.amount.n

\* C7: for a stored value and an amount of the same kind (Integer or
\* UnsignedInteger), the result is of that kind; saturating, it is the exact
\* sum or difference clamped to the range of the kind; otherwise it is the
\* value of the range that equals the exact one modulo 2^Bits.
C7_SaturatesOrWraps ==
    (num_in.applied /\ num_in.existing.kind = num_in.amount.kind) =>
        LET kind == num_in.amount.kind
            lo == KindMin(kind)
            hi == KindMax(kind)
            exact == Exact(num_in)
        IN  /\ num_out.kind = kind
            /\ num_out.n \in lo..hi
            /\ num_in.saturating =>
                   num_out.n = IF exact > hi THEN hi
                               ELSE IF exact < lo THEN lo
                               ELSE exact
            /\ ~num_in.saturating =>
                   \E m \in -1..1 : num_out.n = exact + m * Pow2(Bits)

\* A saturating increment of Integers whose exact sum is above the range.
C7_Witness ==
    /\ num_in.applied
    /\ num_in.op = "increment"
    /\ num_in.saturating
    /\ num_in.amount.kind = "Integer"
    /\ num_in.existing.kind = "Integer"
    /\ Exact(num_in) > IntMax
    /\ num_out = Integer(IntMax)

\* C8: under the default policy, once the clock has reached the expiration
\* recorded for a key and the clients do nothing more, the fairly scheduled
\* worker alone brings about that a Get of the key returns none and the
\* tree no longer holds the key.
Gone(key) == is_none(get(State, key)) /\ key \notin DOMAIN tree
C8_ExpiredKeyEventuallyGone ==
    \A k \in FairKeys :
        (/\ ~ClientsActive
         /\ is_some(recorded[k].expiration)
         /\ unwrap(recorded[k].expiration) <= now)
            ~> Gone(k)

\* A key whose expiration is the instant the clients stopped at is gone:
\* only the worker can have removed it.
C8_Witness ==
    \E k \in FairKeys :
        /\ ~ClientsActive
        /\ recorded[k].expiration = Some(now)
        /\ Gone(k)
        /\ WorkerIdle

\* The client operations of SpecExp on one key.
ExpOperations(key) ==
    {SetOp(key, SetCommand(Bytes(0), expiration, FALSE, "None", FALSE)) :
        expiration \in StoreExpirations}
        \cup {DeleteOp(key), GetOp(key, TRUE)}

\* C11: a key whose expiration was cleared (update_key_expiration with
\* None) is in neither expiring_keys nor expiration_order, and neither a
\* run of the worker nor the sweep of an operation on another key, at
\* the present or at any later instant, removes its entry or changes what
\* a Get of it returns.
C11_ClearedNeverExpires ==
    \A k \in Keys :
        is_none(recorded[k].expiration) =>
            /\ k \notin DOMAIN expiring_keys
            /\ \A i \in 1..Len(expiration_order) : expiration_order[i] # k
            /\ \A t \in now..MaxTime :
                  /\ present(sweep_commit_retarget(State, t), k)
                         = present(State, k)
                  /\ get(sweep_commit_retarget(State, t), k) = get(State, k)
                  /\ \A other \in ExpSetKeys \ {k} :
                        \A op \in ExpOperations(other) :
                            /\ present(perform_kv_operation(State, op, t).s, k)
                                   = present(State, k)
                            /\ get(perform_kv_operation(State, op, t).s, k)
                                   = get(State, k)

\* The pending expiration of k2 was cleared before it was reached; the clock has passed it since, the
\* worker has swept another key and has nothing left to do, and k2 is still
\* there.
C11_Witness ==
    /\ recorded["k2"].expiration = None
    /\ is_some(recorded["k2"].replaced)
    /\ unwrap(recorded["k2"].replaced) <= now
    /\ present(State, "k2")
    /\ "k2" \notin DOMAIN expiring_keys
    /\ WorkerIdle
    /\ \E other \in Keys :
          /\ is_some(recorded[other].expiration)
          /\ unwrap(recorded[other].expiration) <= now
          /\ ~present(State, other)

\* The operations of SpecLazy.
LazyOperations == {SetOp(key, LazySet) : key \in Keys}
                      \cup {DeleteOp(key) : key \in Keys}
\* At least one threshold of the policy is satisfied: enough changes, and
\* its duration (0 when it has none) has elapsed since the last commit.
ThresholdSatisfied(count, elapsed) ==
    \E th \in persistence :
        th.number_of_changes <= count /\ th.duration <= elapsed
\* The three keys in some order.
KeyOrders == {o \in [1..3 -> Keys] : \A i, j \in 1..3 : o[i] = o[j] => i = j}

\* C12: under the lazy policy, when a successful operation ends the dirty
\* buffer has been flushed iff a threshold is satisfied by the number of
\* dirty keys and the time since last_commit; when none is, the tree is as
\* it was and the write is still in the dirty buffer.  With the thresholds
\* {2 changes} and {1 change and 2 time units}, three Sets of distinct keys
\* in less than 2 time units after a commit leave the first two keys in
\* the tree and the third not.
C12_LazyFlush ==
    /\ \A op \in LazyOperations :
          LET swept == remove_expired_keys(execute_command(State, op, now).s, now)
              r == perform_kv_operation(State, op, now)
          IN  is_ok(r.out) =>
                  IF ThresholdSatisfied(Cardinality(DOMAIN swept.dirty_keys),
                                        now - last_commit)
                  THEN /\ r.s.dirty_keys = EmptyMap
                       /\ r.s.tree = persist_keys(tree, swept.dirty_keys)
                       /\ r.s.last_commit = now
                  ELSE /\ r.s.tree = tree
                       /\ r.s.last_commit = last_commit
                       /\ r.s.dirty_keys = swept.dirty_keys
                       /\ op.key \in DOMAIN r.s.dirty_keys
    /\ (DOMAIN dirty_keys = {} /\ now - last_commit < 2) =>
          \A o \in KeyOrders :
              LET s1 == perform_kv_operation(State, SetOp(o[1], LazySet), now).s
                  s2 == perform_kv_operation(s1, SetOp(o[2], LazySet), now).s
                  s3 == perform_kv_operation(s2, SetOp(o[3], LazySet), now).s
              IN  /\ tree_get(s3.tree, o[1]) = Some(serialize(Entry(Bytes(0), None)))
                  /\ tree_get(s3.tree, o[2]) = Some(serialize(Entry(Bytes(0), None)))
                  /\ tree_get(s3.tree, o[3]) = tree_get(tree, o[3])
                  /\ s3.dirty_keys = map_insert(EmptyMap, o[3],
                                                Some(Entry(Bytes(0), None)))

\* Three keys were set before any time had passed: two are in the tree, the
\* third is only in the dirty buffer.
C12_Witness ==
    /\ now = 0
    /\ result = Status("Inserted")
    /\ Cardinality(DOMAIN tree) = 2
    /\ \E k \in Keys \ DOMAIN tree :
          dirty_keys = map_insert(EmptyMap, k, Some(Entry(Bytes(0), None)))

\* The entries a pending change of SpecLazy can be.
LazyPending == {None, Some(Entry(Bytes(0), None))}

\* C13: under the lazy policy, once a threshold is satisfied by the number
\* of dirty keys and by the time since last_commit, and the clients do
\* nothing more, the fairly scheduled worker alone brings about that every
\* pending change has left the dirty buffer and is in the tree (the entry
\* of a write; no entry for a delete).
C13_WorkerCommitsWhenDue ==
    \A k \in Keys, e \in LazyPending :
        (/\ ~ClientsActive
         /\ k \in DOMAIN dirty_keys
         /\ dirty_keys[k] = e
         /\ ThresholdSatisfied(Cardinality(DOMAIN dirty_keys), now - last_commit))
            ~> (/\ DOMAIN dirty_keys = {}
                /\ tree_get(tree, k) =
                       IF is_some(e) THEN Some(serialize(unwrap(e))) ELSE None)

\* The dirty buffer was committed at the instant the clients stopped at,
\* which only the worker can have done: the threshold {1 change and 2 time
\* units} was satisfied by the passing of time alone.
C13_Witness ==
    /\ ~ClientsActive
    /\ last_commit = now
    /\ DOMAIN dirty_keys = {}
    /\ DOMAIN tree # {}
    /\ WorkerIdle

\* Set, Get, Delete, Increment and Decrement on the keys of Spec.
StoreOperations ==
    {SetOp(key, SetCommand(Bytes(0), expiration, FALSE, "None", FALSE)) :
        key \in StoreKeys, expiration \in StoreExpirations}
        \cup {GetOp(key, delete) : key \in StoreKeys, delete \in BOOLEAN}
        \cup {DeleteOp(key) : key \in StoreKeys}
        \cup {IncrementOp(key, amount, saturating) :
                  key \in StoreKeys, amount \in StoreAmounts,
                  saturating \in BOOLEAN}
        \cup {DecrementOp(key, amount, saturating) :
                  key \in StoreKeys, amount \in StoreAmounts,
                  saturating \in BOOLEAN}
\* The value of the entry the tree holds for a key, if any.
tree_value(tr, key) ==
    IF key \in DOMAIN tr THEN entry_value(deserialize(tr[key])) ELSE None

\* C14: under the default policy the dirty buffer is empty between
\* operations, and when a successful Set, Get, Delete, Increment or
\* Decrement returns the dirty buffer is empty and the tree holds, for every
\* key, the value of the key's last mutation (nothing for a key deleted or
\* expired): the state the callers observe through Get.
C14_DefaultCommitsAtOnce ==
    persistence = DefaultPersistence =>
        /\ DOMAIN dirty_keys = {}
        /\ \A op \in StoreOperations :
              LET mid == execute_command(State, op, now)
                  r == after_command(mid, now)
                  swept == DOMAIN mid.s.expiring_keys \ DOMAIN r.s.expiring_keys
              IN  is_ok(r.out) =>
                      /\ DOMAIN r.s.dirty_keys = {}
                      /\ \A k \in Keys :
                            /\ tree_value(r.s.tree, k)
                                   = reference_after(logical, op, swept)[k]
                            /\ tree_value(r.s.tree, k) = entry_value(get(r.s, k))

\* Under the default policy an Increment has returned the new value, and
\* the tree holds it.
C14_Witness ==
    /\ persistence = DefaultPersistence
    /\ result = Value(Some(UnsignedInteger(UIntMax)))
    /\ DOMAIN dirty_keys = {}
    /\ \E k \in StoreKeys :
          /\ tree_value(tree, k) = Some(UnsignedInteger(UIntMax))
          /\ logical[k] = Some(UnsignedInteger(UIntMax))

\* C15: for any sequence of Set and Delete under any policy, the number of
\* transactions committed to the tree is at most the number of changes made
\* (a Set that inserted or updated, a Delete that deleted; the removal of
\* an expired key is counted as a change as well).
C15_CommitsAtMostChanges == commits <= changes

\* The key has an entry: a write in the dirty buffer, or an entry in the
\* tree and no tombstone in the dirty buffer.
HadEntry(key) ==
    IF key \in DOMAIN dirty_keys THEN is_some(dirty_keys[key])
    ELSE key \in DOMAIN tree
\* The state s holds a tombstone for the key and no expiration.
Tombstoned(s, key) ==
    /\ key \in DOMAIN s.dirty_keys
    /\ s.dirty_keys[key] = None
    /\ get(s, key) = None
    /\ key \notin DOMAIN s.expiring_keys
    /\ \A i \in 1..Len(s.expiration_order) : s.expiration_order[i] # key

\* C16: Delete returns Status(Deleted) iff the key had an entry and
\* Status(NotChanged) otherwise; Get{delete} returns the value the key had;
\* when either command is done a tombstone for the key is staged in the
\* dirty buffer, a Get of the key returns none and the key is in neither
\* expiring_keys nor expiration_order; and when the whole operation
\* returns, the tombstone is still staged or has been committed (the tree
\* does not hold the key), a Get returns none and the index is without
\* the key.
C16_DeleteStagesTombstone ==
    LET before == get(State, TheKey)
        d == execute_delete_operation(State, TheKey, now)
        g == execute_get_operation(State, TheKey, TRUE, now)
    IN  /\ d.out = IF HadEntry(TheKey) THEN Status("Deleted")
                   ELSE Status("NotChanged")
        /\ g.out = Value(entry_value(before))
        /\ HadEntry(TheKey) <=> is_some(before)
        /\ Tombstoned(d.s, TheKey)
        /\ Tombstoned(g.s, TheKey)
        /\ \A op \in {DeleteOp(TheKey), GetOp(TheKey, TRUE)} :
              LET r == perform_kv_operation(State, op, now)
              IN  /\ r.out = IF op.command = "Delete" THEN d.out ELSE g.out
                  /\ get(r.s, TheKey) = None
                  /\ TheKey \notin DOMAIN r.s.expiring_keys
                  /\ \A i \in 1..Len(r.s.expiration_order) :
                        r.s.expiration_order[i] # TheKey
                  /\ \/ Tombstoned(r.s, TheKey)
                     \/ /\ TheKey \notin DOMAIN r.s.dirty_keys
                        /\ TheKey \notin DOMAIN r.s.tree

\* A Delete has found the key in the tree only, under the lazy policy: the
\* tombstone is staged over the entry the tree still holds.
C16_Witness ==
    /\ result = Status("Deleted")
    /\ Tombstoned(State, TheKey)
    /\ TheKey \in DOMAIN tree

\* C17: a Get without delete returns the value of the entry the dirty buffer
\* holds for the key, whatever the tree holds; none when the dirty buffer
\* holds a tombstone, even when the tree still holds an entry; and the
\* value of the tree's entry only when the key is not in the dirty buffer.
\* The command changes nothing: what the whole operation changes is what
\* the sweep and the commit that follow every successful command change.
C17_GetReadsThrough ==
    LET g == execute_get_operation(State, TheKey, FALSE, now)
        r == perform_kv_operation(State, GetOp(TheKey, FALSE), now)
    IN  /\ g.out = Value(IF TheKey \in DOMAIN dirty_keys
                         THEN IF is_some(dirty_keys[TheKey])
                              THEN Some(unwrap(dirty_keys[TheKey]).value)
                              ELSE None
                         ELSE tree_value(tree, TheKey))
        /\ g.s = State
        /\ r.out = g.out
        /\ r.s = sweep_commit_retarget(State, now)

\* A Get has returned the value in the dirty buffer while the tree holds an
\* entry with another value.
C17_Witness ==
    /\ result.tag = "Value"
    /\ TheKey \in DOMAIN dirty_keys
    /\ is_some(dirty_keys[TheKey])
    /\ result.value = Some(unwrap(dirty_keys[TheKey]).value)
    /\ TheKey \in DOMAIN tree
    /\ tree_value(tree, TheKey) # result.value

\* The Set commands with keep_existing_expiration.
KeepCommands ==
    {SetCommand(value, expiration, TRUE, check, previous) :
        value \in KeyValues, expiration \in StoreExpirations \cup KeepExpirations,
        check \in Checks, previous \in BOOLEAN}
\* The index of state s records this expiration, or none, for the key.
IndexRecords(s, key, expiration) ==
    IF is_some(expiration)
    THEN /\ key \in DOMAIN s.expiring_keys
         /\ s.expiring_keys[key] = unwrap(expiration)
         /\ Cardinality({i \in 1..Len(s.expiration_order) :
                            s.expiration_order[i] = key}) = 1
    ELSE /\ key \notin DOMAIN s.expiring_keys
         /\ \A i \in 1..Len(s.expiration_order) : s.expiration_order[i] # key

\* C18: a Set with keep_existing_expiration that overwrites an entry stores
\* the new value with the expiration of the entry it overwrites (none when
\* that one had none), whatever expiration the command gives, and the
\* index records that expiration for the key; when the key had no entry
\* the expiration of the command is used.  When the whole operation
\* returns, an entry whose expiration has been reached has been removed by
\* the sweep that follows the command.
C18_KeepExistingExpiration ==
    \A cmd \in KeepCommands :
        ~Vetoed(TheKey, cmd) =>
            LET before == get(State, TheKey)
                expiration == IF is_some(before) THEN unwrap(before).expiration
                              ELSE cmd.expiration
                written == Entry(cmd.value, expiration)
                set_done == execute_set_operation(State, TheKey, cmd, now).s
                after == SetOutcome(TheKey, cmd).s
            IN  /\ get(set_done, TheKey) = Some(written)
                /\ IndexRecords(set_done, TheKey, expiration)
                /\ IF Expired(expiration, now)
                   THEN /\ get(after, TheKey) = None
                        /\ IndexRecords(after, TheKey, None)
                   ELSE /\ get(after, TheKey) = Some(written)
                        /\ IndexRecords(after, TheKey, expiration)

\* The key holds the value of a keeping Set with the expiration only a
\* plain Set gives: the keeping Set has overwritten an entry and kept its
\* expiration, not that of its own command; and the index records it.
C18_Witness ==
    /\ result = Status("Updated")
    /\ get(State, TheKey) = Some(Entry(KeepValue, Some(1)))
    /\ Some(1) \notin KeepExpirations
    /\ IndexRecords(State, TheKey, Some(1))

\* Increment and Decrement of the key by the least, the greatest and the
\* unit amounts of either kind.
NumericAmounts ==
    {Integer(IntMin), Integer(-1), Integer(1), Integer(IntMax),
     UnsignedInteger(0), UnsignedInteger(1), UnsignedInteger(UIntMax)}
NumericOperations ==
    {IncrementOp(TheKey, amount, saturating) :
        amount \in NumericAmounts, saturating \in BOOLEAN}
        \cup {DecrementOp(TheKey, amount, saturating) :
                  amount \in NumericAmounts, saturating \in BOOLEAN}
\* The entry the claim has the operation store: the function of the
\* command applied to the stored number (UnsignedInteger(0) when the key
\* has no entry), with the expiration of the entry (none when there is none).
NumericEntry(op) ==
    LET before == get(State, TheKey)
        stored == IF is_some(before) THEN unwrap(before).value
                  ELSE UnsignedInteger(0)
        function == IF op.command = "Increment" THEN "increment" ELSE "decrement"
    IN  Entry(apply_numeric(function, stored, op.amount, op.saturating),
              IF is_some(before) THEN unwrap(before).expiration ELSE None)
\* The sweep at the present instant removes the key.
Due(key) == key \in DOMAIN expiring_keys /\ expiring_keys[key] <= now

contains_nul(text) == \E i \in DOMAIN text : text[i] = NUL
pair_has_nul(p) ==
    \/ is_some(p[1]) /\ contains_nul(unwrap(p[1]))
    \/ contains_nul(p[2])
PairOperations(p) ==
    {[op EXCEPT !.key = tree_key(full_key(p[1], p[2]))] :
        op \in {SetOp(TheKey, SetCommand(value, None, FALSE, "None", FALSE)) :
                   value \in NamespaceValues}
               \cup {GetOp(TheKey, FALSE), DeleteOp(TheKey)}}
Accepted(p) ==
    \E op \in PairOperations(p) : is_ok(perform_kv_operation(State, op, now).out)
C20_NulRejected ==
    /\ \A p \in Pairs :
          pair_has_nul(p) =>
              \A op \in PairOperations(p) :
              \A r \in {perform_kv_operation(State, op, now)} :
                  /\ ~is_ok(r.out)
                  /\ r.s = State
    /\ \A p \in Pairs, q \in Pairs :
          (p # q /\ Accepted(p) /\ Accepted(q)) =>
              full_key(p[1], p[2]) # full_key(q[1], q[2])

\* C21: for a namespace and a key without NUL, full_key is the namespace
\* (nothing when it is missing), one NUL and the key, and split_key of it
\* gives back the key and the namespace, an empty namespace as missing;
\* split_key of a text without NUL is none.
namespace_text(namespace) == IF is_some(namespace) THEN unwrap(namespace) ELSE <<>>
NulFree(namespace, key) ==
    ~contains_nul(namespace_text(namespace)) /\ ~contains_nul(key)
Joined == is_some(name_out) /\ Len(unwrap(name_out)[1]) > Len(name_in[2])
C21_FullKeyRoundTrip ==
    is_some(name_out) =>
        \A text \in {unwrap(name_out)[1]}, split \in {unwrap(name_out)[2]},
           prefix \in {namespace_text(name_in[1])}, key \in {name_in[2]} :
            /\ ~contains_nul(text) => split = None
            /\ (Joined /\ NulFree(name_in[1], key)) =>
                  /\ Len(text) = Len(prefix) + 1 + Len(key)
                  /\ \A i \in 1..Len(prefix) : text[i] = prefix[i]
                  /\ text[Len(prefix) + 1] = NUL
                  /\ \A i \in 1..Len(key) : text[Len(prefix) + 1 + i] = key[i]
                  /\ split = Some(<<IF prefix = <<>> THEN None ELSE Some(prefix),
                                    key>>)
C21_Witness ==
    /\ Joined
    /\ NulFree(name_in[1], name_in[2])
    /\ name_in[1] = Some(<<>>)
    /\ name_in[2] # <<>>
    /\ unwrap(name_out)[2] = Some(<<None, name_in[2]>>)

\* C22: when a commit fails the pending writes are lost: the dirty buffer
\* was emptied before the blocking task ran and is empty afterwards, the
\* tree keeps its older state and that is what a get of an affected key
\* returns, and the client whose operation started the commit gets the
\* error of the commit.
\* (A step that ends a commit which would have changed the tree, and leaves
\* the tree as it was, is a failed commit.)
CommitFailed ==
    /\ is_some(inflight)
    /\ is_none(inflight')
    /\ persist_keys(tree, unwrap(inflight)) # tree
    /\ tree' = tree
tree_entry(tr, key) == IF key \in DOMAIN tr THEN deserialize(tr[key]) ELSE None
C22_FailedCommitLosesWrites ==
    [][CommitFailed =>
          /\ dirty_keys = EmptyMap
          /\ dirty_keys' = EmptyMap
          /\ \A k \in DOMAIN unwrap(inflight) :
                /\ tree_get(tree', k) = tree_get(tree, k)
                /\ get(State', k) = tree_entry(tree, k)
          /\ \E k \in DOMAIN unwrap(inflight) :
                unwrap(inflight)[k] # tree_entry(tree', k)
          /\ is_some(pending) => result' = Err(TreeError)]_vars
C22_Witness ==
    /\ result = Err(TreeError)
    /\ dirty_keys = EmptyMap
    /\ is_some(logical[TheKey])
    /\ is_none(get(State, TheKey))
    /\ TheKey \notin DOMAIN tree

\* C23: a key is in the dirty buffer iff a change to it is pending: an
\* operation that changes nothing (a vetoed Set, a Delete or a Get{delete}
\* of a key with no entry, a plain Get) adds no key to the dirty buffer (the
\* sweep that follows it may add the keys it removes), and every successful
\* change adds its key.
KeyOperations ==
    {SetOp(TheKey, cmd) : cmd \in SetCommands}
        \cup {GetOp(TheKey, delete) : delete \in BOOLEAN}
        \cup {DeleteOp(TheKey)}
ChangesNothing(op) ==
    CASE op.command = "Set" -> Vetoed(op.key, op.set)
      [] op.command = "Get" -> ~op.delete \/ is_none(get(State, op.key))
      [] op.command = "Delete" -> is_none(get(State, op.key))
C23_DirtyIffPending ==
    \A op \in KeyOperations :
    \A mid \in {execute_command(State, op, now)} :
    \A r \in {after_command(mid, now)} :
        IF ChangesNothing(op)
        THEN /\ DOMAIN mid.s.dirty_keys = DOMAIN dirty_keys
             /\ DOMAIN r.s.dirty_keys \subseteq
                    DOMAIN dirty_keys \cup swept_keys(mid.s, now)
        ELSE op.key \in DOMAIN mid.s.dirty_keys

\* C24 as stated: with the lock free, the published target is the minimum
\* of the earliest pending expiration and last_commit plus the duration
\* until the next commit for the dirty count (read as the time that remains
\* or as the whole duration of the threshold), and it is absent when there
\* is neither.
next_expiration ==
    IF Len(expiration_order) = 0 THEN TimestampMax
    ELSE expiring_keys[expiration_order[1]]
dirty_count == Cardinality(DOMAIN dirty_keys)
commit_deadline ==
    timestamp_add(last_commit,
                  duration_until_next_commit(persistence, dirty_count, 0))
C25_WorkerSurvivesCommitError == w_pc \in {"wait", "perform", "commit"}

\* C26: once the state is torn down, the worker eventually returns, whether
\* it was waiting on an absent target, sleeping until a target to come or
\* holding a target already past.
C26_WorkerTerminates == ~alive ~> (w_pc = "done")

\* C27: the state lock is not held while the blocking task of a commit
\* runs, so that a client operation or the worker can take it meanwhile.
C27_LockFreeDuringCommit == is_some(inflight) => lock = "free"

\* C28: whoever can read while a commit is under way reads the last written
\* value of every key: a write that has left the dirty buffer and has not
\* reached the tree is never visible, since the lock is free only between
\* commits; and the operation that started a commit has no Output before
\* the commit is done.
C28_ReaderSeesLastWrite ==
    /\ lock = "free" =>
          /\ is_none(inflight)
          /\ \A k \in Keys : entry_value(get(State, k)) = logical[k]
    /\ is_some(pending) =>
          /\ is_some(inflight)
          /\ lock = "client"
          /\ result = NoOutput
C28_Witness ==
    /\ is_some(pending)
    /\ is_some(inflight)
    /\ lock = "client"
    /\ \E k \in DOMAIN unwrap(inflight) :
          /\ is_some(logical[k])
          /\ entry_value(get(State, k)) # logical[k]
          /\ k \notin DOMAIN dirty_keys

\* The operations of SpecTarget's clients.
TargetOperations ==
    {SetOp(key, SetCommand(Bytes(0), expiration, FALSE, "None", FALSE)) :
        key \in StoreKeys, expiration \in StoreExpirations}
        \cup {DeleteOp(TheKey)}
\* The keys the command of op leaves in the expiration index with an
\* expiration at or before now.
due_after_command(op) ==
    {k \in DOMAIN execute_command(State, op, now).s.expiring_keys :
        execute_command(State, op, now).s.expiring_keys[k] <= now}
\* C29: when an operation whose command succeeded returns, the sweep, the
\* commit and the retarget have run in this order: no key with an
\* expiration at or before now is left in the expiration index; every key
\* that was due has its tombstone in the dirty buffer or, the buffer
\* flushed, is gone from the tree; the policy asks for no commit of what
\* the buffer holds, the tombstones of the sweep included; and the target
\* is the one computed from the index, the buffer and last_commit as the
\* operation leaves them.
C29_SweepCommitRetarget ==
    [][\A op \in TargetOperations :
          (result' # NoOutput /\ is_ok(result') /\ Operation(op)) =>
              /\ \A k \in DOMAIN expiring_keys' : now < expiring_keys'[k]
              /\ \A i \in 1..Len(expiration_order') :
                     expiration_order'[i] \in DOMAIN expiring_keys'
              /\ \A k \in due_after_command(op) :
                     /\ k \notin DOMAIN expiring_keys'
                     /\ IF k \in DOMAIN dirty_keys'
                        THEN dirty_keys'[k] = None
                        ELSE k \notin DOMAIN tree'
              /\ DOMAIN dirty_keys' # {} => ~needs_commit(State, now)'
              /\ background_worker_target' =
                     Some(Min(next_expiration',
                              timestamp_add(
                                  now,
                                  duration_until_next_commit(
                                      persistence, dirty_count',
                                      unwrap_or_default(
                                          timestamp_sub(now, last_commit'))))))
      ]_vars

\* An operation on k1 has returned at or after the expiration of k2, the
\* worker never having run: the operation has swept k2 and, under the
\* default policy, flushed its tombstone, so k2 is gone from the tree.
C29_Witness ==
    /\ result = Status("Inserted")
    /\ w_pc = "wait"
    /\ w_target = None
    /\ persistence = DefaultPersistence
    /\ recorded["k2"].expiration = Some(1)
    /\ 1 <= now
    /\ "k2" \notin DOMAIN expiring_keys
    /\ "k2" \notin DOMAIN tree
    /\ "k1" \in DOMAIN tree
    /\ dirty_keys = EmptyMap
    /\ is_some(background_worker_target)

\* C30: the sweep at any time t takes out of expiring_keys and
\* expiration_order exactly the keys whose expiration is at or before t and
\* puts a tombstone for each of them into the dirty buffer; a key whose
\* expiration is after t keeps its timestamp and its place among the keys
\* that stay, and what the dirty buffer holds for the other keys, the tree,
\* last_commit and the target are as before.
stays(t, key) == t < expiring_keys[key]
C30_SweepExactlyDue ==
    \A t \in 0..MaxTime :
    \A r \in {remove_expired_keys(State, t)} :
        /\ DOMAIN r.expiring_keys =
               {k \in DOMAIN expiring_keys : stays(t, k)}
        /\ \A k \in DOMAIN r.expiring_keys :
               r.expiring_keys[k] = expiring_keys[k]
        /\ r.expiration_order =
               SelectSeq(expiration_order, LAMBDA k : stays(t, k))
        /\ DOMAIN r.dirty_keys =
               DOMAIN dirty_keys
                   \cup {k \in DOMAIN expiring_keys : ~stays(t, k)}
        /\ \A k \in DOMAIN r.dirty_keys :
               r.dirty_keys[k] =
                   IF k \in DOMAIN expiring_keys /\ ~stays(t, k) THEN None
                   ELSE dirty_keys[k]
        /\ r.tree = tree
        /\ r.last_commit = last_commit
        /\ r.background_worker_target = background_worker_target

\* At time 1 the worker has swept k1, whose expiration was 1, and has left
\* k3 and k2, both with expiration 2, in the index in their order.
C30_Witness ==
    /\ now = 1
    /\ WorkerIdle
    /\ recorded["k1"].expiration = Some(1)
    /\ "k1" \notin DOMAIN expiring_keys
    /\ ~present(State, "k1")
    /\ expiration_order = <<"k3", "k2">>
    /\ expiring_keys["k3"] = 2
    /\ expiring_keys["k2"] = 2

\* C31: a commit that succeeds applies the keys it took from the dirty
\* buffer in one step: a key taken with an entry has that entry in the
\* tree afterwards, a key taken with a tombstone has none, every other key
\* of the tree is as before; the tree does not change while the task runs,
\* and the dirty buffer is empty from the moment the keys are taken.
C31_CommitAppliesSnapshot ==
    /\ [](is_some(inflight) => dirty_keys = EmptyMap)
    /\ [][(is_some(inflight) /\ is_some(inflight')) => tree' = tree]_vars
    /\ [][(is_some(inflight) /\ is_none(inflight')) =>
              \A k \in Keys :
                  IF k \in DOMAIN unwrap(inflight)
                  THEN IF is_some(unwrap(inflight)[k])
                       THEN /\ tree_get(tree', k) =
                                   Some(serialize(unwrap(unwrap(inflight)[k])))
                            /\ tree_entry(tree', k) = unwrap(inflight)[k]
                       ELSE k \notin DOMAIN tree'
                  ELSE tree_get(tree', k) = tree_get(tree, k)]_vars

\* Under the lazy policy a Delete of k1 has returned Deleted and its commit
\* is done: the tombstone of k1 has removed it from the tree, and k2 is in
\* the tree.
C31_Witness ==
    /\ persistence # DefaultPersistence
    /\ result = Status("Deleted")
    /\ is_none(inflight)
    /\ dirty_keys = EmptyMap
    /\ "k1" \notin DOMAIN tree
    /\ "k2" \in DOMAIN tree

\* C32: the changed keys of a commit are one ChangedKey per snapshot key
\* that was set or removed: deleted = TRUE exactly for the tombstones of keys
\* the tree held, deleted = FALSE for the keys with an entry (whether or
\* not the tree held them), none for a tombstone of a key the tree did not
\* hold. With no changed key nothing is attached and nothing committed:
\* the data of the last transaction and the tree stay as they were.
name_of(k) == unwrap(split_key(composite_keys[k]))
removed_by(snapshot) ==
    {k \in DOMAIN snapshot : is_none(snapshot[k]) /\ k \in DOMAIN tree}
written_by(snapshot) == {k \in DOMAIN snapshot : is_some(snapshot[k])}
C32_ChangedKeys ==
    [][(is_some(inflight) /\ is_none(inflight')) =>
          \A snapshot \in {unwrap(inflight)} :
              IF removed_by(snapshot) \cup written_by(snapshot) = {}
              THEN transaction_data' = transaction_data /\ tree' = tree
              ELSE /\ is_some(transaction_data')
                   /\ unwrap(transaction_data')[1] = "Keys"
                   /\ \A records \in {unwrap(transaction_data')[2]} :
                         /\ Len(records) =
                                Cardinality(removed_by(snapshot)
                                                \cup written_by(snapshot))
                         /\ {records[i] : i \in 1..Len(records)} =
                                {ChangedKey(name_of(k)[1], name_of(k)[2], TRUE) :
                                    k \in removed_by(snapshot)}
                                \cup
                                {ChangedKey(name_of(k)[1], name_of(k)[2], FALSE) :
                                    k \in written_by(snapshot)}]_vars

\* The last transaction removed k1 (no namespace, key "b") and set k2
\* (namespace "a", key "b").
C32_Witness ==
    /\ is_none(inflight)
    /\ transaction_data =
           Some(<<"Keys", <<ChangedKey(None, <<98>>, TRUE),
                            ChangedKey(Some(<<97>>), <<98>>, FALSE)>>>>)

\* C33: last_commit is the time of the last flush that succeeded: the step
\* that ends a successful commit sets it to now, and no other step changes
\* it, the step that ends a failed commit included.
CommitDone == is_some(inflight) /\ is_none(inflight')
C33_LastCommitIsLastFlush ==
    [][/\ (CommitDone /\ ~CommitFailed) => last_commit' = now
       /\ CommitFailed => last_commit' = last_commit
       /\ ~CommitDone => last_commit' = last_commit]_vars

\* C34: a step that changes the head of expiration_order (the first key or
\* its timestamp, a queue becoming empty or non-empty) leaves the target
\* recomputed from the state it produces; and the target is never later
\* than the earliest pending expiration.
expiration_head ==
    IF Len(expiration_order) = 0 THEN None
    ELSE Some(<<expiration_order[1], expiring_keys[expiration_order[1]]>>)
recomputed_target ==
    Some(Min(next_expiration,
             timestamp_add(now,
                           duration_until_next_commit(
                               persistence, dirty_count,
                               unwrap_or_default(
                                   timestamp_sub(now, last_commit))))))
C34_HeadChangeRetargets ==
    /\ [](Len(expiration_order) # 0 =>
              /\ is_some(background_worker_target)
              /\ unwrap(background_worker_target) <= next_expiration)
    /\ [][expiration_head' # expiration_head =>
              background_worker_target' = recomputed_target']_vars

\* The worker waits for time 2, the expiration of k2, and an update has
\* since put k3 with expiration 1 in front of it: the target is 1 and the
\* worker has yet to see the change.
C34_Witness ==
    /\ expiration_order = <<"k3", "k2">>
    /\ expiring_keys["k3"] = 1
    /\ expiring_keys["k2"] = 2
    /\ w_pc = "wait"
    /\ w_target = Some(2)
    /\ target_changed
    /\ background_worker_target = Some(1)

\* C35: the worker goes from waiting to perform_operations only when the
\* timer of the target it read has elapsed, or when the target changed and
\* the target it then reads is already past; a change of the target sends
\* it back to read the latest target, which it waits for when that is not
\* past; without a target only a change wakes it; and outside
\* perform_operations a step of the worker leaves the store as it is.
TargetSeen == target_changed /\ ~target_changed'
C35_WorkerWaitsForTarget ==
    /\ [][(w_pc = "wait" /\ w_pc' = "perform") =>
              \/ /\ ~TargetSeen
                 /\ is_some(w_target)
                 /\ unwrap(w_target) <= now
              \/ /\ TargetSeen
                 /\ is_some(background_worker_target)
                 /\ unwrap(background_worker_target) < now]_vars
    /\ [][(w_pc = "wait" /\ TargetSeen /\ w_pc' = "wait") =>
              w_target' = background_worker_target]_vars
    /\ [][(w_pc = "wait" /\ is_none(w_target) /\ wvars' # wvars) =>
              TargetSeen]_vars
    /\ [][(w_pc # "perform" /\ (wvars' # wvars \/ TargetSeen)) =>
              UNCHANGED <<tree, dirty_keys, expiring_keys, expiration_order,
                          last_commit, background_worker_target>>]_vars

\* Before any expiration is reached the worker has read the latest target,
\* 1, the earlier of the two pending expirations, and waits for it without
\* having performed anything.
C35_Witness ==
    /\ now = 0
    /\ w_pc = "wait"
    /\ w_target = Some(1)
    /\ ~target_changed
    /\ background_worker_target = Some(1)
    /\ Len(expiration_order) = 2
    /\ expiring_keys[expiration_order[2]] = 2

\* ------------------------------------------------- the ExpirationLoader
\* ExpirationLoader::execute: a blocking task scans the tree in key order
\* and sends (key, expiration) for every entry that decodes and expires;
\* the job applies what it receives with update_key_expiration_async and,
\* the channel closed and empty, marks the expirations loaded.
\*
\* What the scan sends for the bytes of one key.
scan_entry(key, bytes) ==
    IF /\ is_some(deserialize(bytes))
       /\ is_some(unwrap(deserialize(bytes)).expiration)
    THEN <<<<key, unwrap(deserialize(bytes)).expiration>>>>
    ELSE <<>>

\* The scan reads the next key.
LoaderScan ==
    /\ scan_keys # <<>>
    /\ scan_keys' = Tail(scan_keys)
    /\ loader_queue' =
           loader_queue \o
               (IF Head(scan_keys) \in DOMAIN tree
                THEN scan_entry(Head(scan_keys), tree[Head(scan_keys)])
                ELSE <<>>)
    /\ result' = NoOutput
    /\ UNCHANGED <<kvvars, now, alive, shutdown_keys, logical, recorded,
                   wvars, numvars, namevars, iovars, countvars,
                   expiration_loaded>>

\* recv_async returns a pair: update_key_expiration under the state lock.
LoaderUpdate ==
    /\ loader_queue # <<>>
    /\ lock = "free"
    /\ \E s \in {update_key_expiration(State, Head(loader_queue)[1],
                                         Head(loader_queue)[2], now)} :
          Install(s)
    /\ loader_queue' = Tail(loader_queue)
    /\ result' = NoOutput
    /\ UNCHANGED <<now, alive, shutdown_keys, logical, recorded, wvars,
                   numvars, namevars, iovars, countvars, scan_keys,
                   expiration_loaded>>

\* recv_async returns Err: the scan has dropped the sender and the channel
\* is empty.
\* (A loader that stops receiving as soon as the scan is over.)
loader_complete_scan_over(scan, queue) == scan = <<>>
loader_complete(scan, queue) == scan = <<>> /\ queue = <<>>

\* mark_key_value_expiration_loaded.
LoaderComplete ==
    /\ ~expiration_loaded
    /\ loader_complete(scan_keys, loader_queue)
    /\ expiration_loaded' = TRUE
    /\ result' = NoOutput
    /\ UNCHANGED <<kvvars, now, alive, shutdown_keys, logical, recorded,
                   wvars, numvars, namevars, iovars, countvars, scan_keys,
                   loader_queue>>

\* The store is opened over a tree that holds, for each of the three keys,
\* bytes that do not decode, an entry that does not expire, or an entry
\* that expires at 1 or at 2. The loader, the worker and the clock run; no
\* client does.
LoadBytes ==
    {RawBytes, serialize(Entry(Bytes(0), None)),
     serialize(Entry(Bytes(0), Some(1))), serialize(Entry(Bytes(0), Some(2)))}
persisted_expiration(bytes) ==
    IF is_some(deserialize(bytes)) THEN unwrap(deserialize(bytes)).expiration
    ELSE None
LoadState(tr) ==
    /\ NewState(tr)
    /\ scan_keys = in_key_order(DOMAIN tr)
    /\ loader_queue = <<>>
    /\ expiration_loaded = FALSE
LoadInit ==
    /\ \E tr \in [Keys -> LoadBytes] : LoadState(tr)
    /\ num_in = NumIdle
    /\ name_in = NameIdle
    /\ persistence \in StorePolicies

Loader == LoaderScan \/ LoaderUpdate \/ LoaderComplete

LoadNext ==
    \/ Loader
    \/ Tick
    \/ Worker

SpecLoad == LoadInit /\ [][LoadNext]_vars

\* The step that marks the expirations loaded.
MarksLoaded == ~expiration_loaded /\ expiration_loaded'
\* A key is in expiring_keys only with the expiration of its entry in the
\* tree.
OnlyPersisted ==
    \A k \in DOMAIN expiring_keys :
        /\ k \in DOMAIN tree
        /\ persisted_expiration(tree[k]) = Some(expiring_keys[k])
\* The keys whose entry in the tree expires and that are not in
\* expiring_keys.
NotLoaded ==
    {k \in DOMAIN tree : /\ is_some(persisted_expiration(tree[k]))
                         /\ k \notin DOMAIN expiring_keys}
\* The claim as it stands: when the expirations are marked loaded, the
\* scan is over and the channel empty, and a key is in expiring_keys, with
\* the expiration of its entry, iff the tree holds an entry for it that
\* expires.
C36_Original ==
    [][MarksLoaded =>
          (/\ scan_keys = <<>>
           /\ loader_queue = <<>>
           /\ OnlyPersisted
           /\ NotLoaded = {})']_vars

\* C36: when the expirations are marked loaded, the scan is over and the
\* channel empty; a key is in expiring_keys only with the expiration of
\* its entry in the tree; and a key whose entry in the tree expires is in
\* expiring_keys unless that expiration has been reached and the worker
\* has swept the key, its tombstone waiting in the dirty buffer.
C36_LoaderLoadsExpirations ==
    [][MarksLoaded =>
          (/\ scan_keys = <<>>
           /\ loader_queue = <<>>
           /\ OnlyPersisted
           /\ \A k \in NotLoaded :
                  /\ unwrap(persisted_expiration(tree[k])) <= now
                  /\ k \in DOMAIN dirty_keys
                  /\ dirty_keys[k] = None)']_vars

\* The loader is done before any expiration is reached: k1 does not
\* decode, k2 does not expire, k3 expires at 2 and is the one key of the
\* index.
C36_Witness ==
    /\ expiration_loaded
    /\ now = 0
    /\ tree["k1"] = RawBytes
    /\ persisted_expiration(tree["k2"]) = None
    /\ tree["k2"] # RawBytes
    /\ expiring_keys = [k \in {"k3"} |-> 2]
    /\ expiration_order = <<"k3">>

\* The store is opened over a tree that holds an expiring entry for one
\* key; beside the loader, the worker and the clock a client sets and
\* deletes that key.
RaceBytes ==
    {serialize(Entry(Bytes(0), Some(1))), serialize(Entry(Bytes(0), Some(2)))}
RaceInit ==
    /\ \E tr \in [{TheKey} -> RaceBytes] : LoadState(tr)
    /\ num_in = NumIdle
    /\ name_in = NameIdle
    /\ persistence \in StorePolicies

RaceNext ==
    \/ Loader
    \/ \E value \in KeyValues, expiration \in StoreExpirations :
          Set(TheKey, SetCommand(value, expiration, FALSE, "None", FALSE))
    \/ Delete(TheKey)
    \/ Tick
    \/ Worker

SpecRace == RaceInit /\ [][RaceNext]_vars

\* C37: an update of the loader leaves the index with what the key's
\* current entry says: the expiration of the entry (the dirty buffer
\* first, else the tree), or nothing when the entry does not expire or
\* there is none.
entry_expiration(k) ==
    IF is_some(get(State, k)) THEN unwrap(get(State, k)).expiration ELSE None
C37_LoaderKeepsClientDecision ==
    [][Len(loader_queue') < Len(loader_queue) =>
          \A k \in {Head(loader_queue)[1]} :
              (IF is_some(entry_expiration(k))
               THEN /\ k \in DOMAIN expiring_keys
                    /\ expiring_keys[k] = unwrap(entry_expiration(k))
               ELSE k \notin DOMAIN expiring_keys)']_vars

\* C38: a command does not see the value of an entry whose expiration is
\* at or before now: with the entry of the key expired and not yet swept,
\* Get, Get-and-delete and a Set that returns the previous value return no
\* value, and Increment and Decrement start from zero.
ExpiredUnswept(k) == k \in DOMAIN expiring_keys /\ expiring_keys[k] <= now
C38_ExpiredEntryIsAbsent ==
    ExpiredUnswept(TheKey) =>
        /\ \A delete \in BOOLEAN :
               perform_kv_operation(State, GetOp(TheKey, delete), now).out
                   = Value(None)
        /\ \A value \in KeyValues :
               perform_kv_operation(
                   State,
                   SetOp(TheKey, SetCommand(value, None, FALSE, "None", TRUE)),
                   now).out = Value(None)
        /\ \A amount \in StoreAmounts :
               /\ perform_kv_operation(
                      State, IncrementOp(TheKey, amount, TRUE), now).out
                      = Value(Some(increment(UnsignedInteger(0), amount, TRUE)))
               /\ perform_kv_operation(
                      State, DecrementOp(TheKey, amount, TRUE), now).out
                      = Value(Some(decrement(UnsignedInteger(0), amount, TRUE)))

\* One key under Set (bytes and numbers, with and without expiration,
\* keeping the expiration or not), Get, Delete, Increment and Decrement,
\* the worker and the clock; the transaction of a commit may fail.
IndexValues == {Bytes(0), UnsignedInteger(1)}
IndexOperations ==
    {SetOp(TheKey, SetCommand(value, expiration, keep, "None", FALSE)) :
        value \in IndexValues, expiration \in StoreExpirations,
        keep \in BOOLEAN}
        \cup {GetOp(TheKey, delete) : delete \in BOOLEAN}
        \cup {DeleteOp(TheKey)}
        \cup {IncrementOp(TheKey, amount, TRUE) : amount \in StoreAmounts}
        \cup {DecrementOp(TheKey, amount, TRUE) : amount \in StoreAmounts}

IndexNext ==
    \/ \E op \in IndexOperations : IoOperation(op)
    \/ \E failed \in BOOLEAN : IoCommitDone(failed)
    \/ IoPerform
    \/ WorkerChanged
    \/ WorkerTimer
    \/ Tick

SpecIndex == Init /\ [][IndexNext]_vars

\* The expiration index says what the entries say: a key is in
\* expiring_keys with timestamp t iff entry(k) exists and has expiration t,
\* and the queue holds the keys of expiring_keys.
IndexAgrees(entry(_)) ==
    /\ \A k \in Keys :
           IF is_some(entry(k)) /\ is_some(unwrap(entry(k)).expiration)
           THEN /\ k \in DOMAIN expiring_keys
                /\ expiring_keys[k] = unwrap(unwrap(entry(k)).expiration)
           ELSE k \notin DOMAIN expiring_keys
    /\ {expiration_order[i] : i \in 1..Len(expiration_order)}
           = DOMAIN expiring_keys
\* The current entry of a key: the dirty buffer first, else the tree.
current_entry(k) == get(State, k)
\* ... with the keys a commit has taken and not yet written in between.
current_or_inflight_entry(k) ==
    IF k \in DOMAIN dirty_keys THEN dirty_keys[k]
    ELSE IF is_some(inflight) /\ k \in DOMAIN unwrap(inflight)
    THEN unwrap(inflight)[k]
    ELSE tree_entry(tree, k)

TwoChanges == {PersistenceThreshold(2, 0)}
\* 1 if the operation wrote its key to the dirty buffer.
mutations_of(op, out) ==
    IF /\ is_ok(out)
       /\ \/ op.command \in {"Increment", "Decrement"}
          \/ changes_of(out) = 1
    THEN 1 ELSE 0

SingleOperations ==
    {SetOp(TheKey, SetCommand(value, expiration, FALSE, "None", FALSE)) :
        value \in IndexValues, expiration \in StoreExpirations}
        \cup {DeleteOp(TheKey)}
        \cup {IncrementOp(TheKey, amount, TRUE) : amount \in StoreAmounts}
        \cup {DecrementOp(TheKey, amount, TRUE) : amount \in StoreAmounts}

SingleOperation(op) ==
    /\ changes < MaxCount
    /\ Operation(op)
    /\ \E mid \in {execute_command(State, op, now)} :
          /\ commits' = commits + (IF is_ok(mid.out)
                                   THEN commits_of(mid.s, now) ELSE 0)
          /\ changes' = changes + mutations_of(op, mid.out)

SinglePerform ==
    /\ Perform
    /\ commits' = commits + commits_of(State, now)
    /\ UNCHANGED changes

SingleInit ==
    /\ InitState(EmptyMap)
    /\ num_in = NumIdle
    /\ name_in = NameIdle
    /\ persistence = TwoChanges

SingleNext ==
    \/ \E op \in SingleOperations : SingleOperation(op)
    \/ SinglePerform
    \/ WorkerChanged
    \/ WorkerTimer
    \/ Tick

SpecSingle == SingleInit /\ [][SingleNext]_vars

\* C40: the policy counts the distinct keys of the dirty buffer, not the
\* mutating operations: under "after 2 changes", however many Sets,
\* Increments, Decrements and Deletes of one key there have been, the
\* dirty buffer holds at most that one key, no transaction has been
\* committed and the tree is as it was opened.
C40_OneKeyIsOneChange ==
    /\ Cardinality(DOMAIN dirty_keys) <= 1
    /\ ~needs_commit(State, now)
    /\ commits = 0
    /\ tree = EmptyMap
C40_Witness ==
    /\ changes = MaxCount
    /\ commits = 0
    /\ DOMAIN dirty_keys = {TheKey}
    /\ is_some(dirty_keys[TheKey])
    /\ unwrap(dirty_keys[TheKey]).value = UnsignedInteger(0)

====
